---------------------------- MODULE Spec2Model ----------------------------
(***************************************************************************)
(* Model of the Linux back-end (linux/hid.c): the hotplug engine (the      *)
(* process-wide hid_hotplug_context, registration, deregistration, the     *)
(* dispatcher and the udev worker thread), library initialisation and      *)
(* shutdown, the report-descriptor parser, the device-info builder, the    *)
(* enumerator, the error registry and the per-device calls.                *)
(***************************************************************************)
EXTENDS Integers, Sequences, FiniteSets, TLC

(***************************************************************************)
(* Bounds of the model.                                                    *)
(***************************************************************************)
\* width in bits of hid_hotplug_callback_handle (a C int), scaled down
HANDLE_BITS == 3
\* number of callback records the program allocates in one run
MaxReg == 2
\* the same, in the runs that follow the handle counter round its range
MaxHandleReg == 5
\* number of kernel add/remove events in one run
MaxEvents == 2
\* number of callbacks registered at the same time
MaxCallbacks == 2
\* number of callback records allocated in the runs with hid_init and hid_exit
MaxLibReg == 2
\* length of the report descriptors built from DescBytes
MaxDescLen == 4
\* number of hidraw nodes in the system that hid_enumerate scans
MaxNodes == 2
\* registrations the program's threads make in the step-by-step runs
MaxRaceReg == 2
\* longest buffer in the runs of get_hid_report_bytes
MaxBytesLen == 5
\* callback records allocated in the runs with the dispatch taken callback by callback
MaxTeardownReg == 2
\* callback records allocated in the runs with the arming taken in two steps
MaxSeedReg == 2

HandleMax == 2 ^ (HANDLE_BITS - 1) - 1
HandleMod == 2 ^ HANDLE_BITS

(***************************************************************************)
(* Program constants.                                                      *)
(***************************************************************************)
HID_API_HOTPLUG_EVENT_DEVICE_ARRIVED == 1
HID_API_HOTPLUG_EVENT_DEVICE_LEFT == 2
HID_API_HOTPLUG_ENUMERATE == 1

NULL == "NULL"

\* the caller holds no device; alloc is "none", "live" or "freed"
NoDevice ==
    [alloc |-> "none", node |-> 0, device_handle |-> -1, blocking |-> 1,
     last_error_str |-> NULL, device_info |-> <<>>]

\* no hid_enumerate call is in progress
NoEnumeration ==
    [running |-> FALSE, vendor_id |-> 0, product_id |-> 0, dev_list_entry |-> 0,
     root |-> <<>>]

\* the two texts hid_enumerate leaves when it found nothing
ERR_NO_DEVICES == "No HID devices found in the system."
ERR_NO_MATCH == "No HID devices with requested VID/PID found in the system."

(***************************************************************************)
(* The context mutex is "static" (zero-filled static storage, never         *)
(* initialised), "unlocked", "locked" or "destroyed".                      *)
(* pthread_mutex_init stores a fresh unlocked mutex.  Initialising a mutex  *)
(* that a thread holds is undefined: the outcomes are the fresh mutex or   *)
(* no visible change.                                                      *)
(***************************************************************************)
pthread_mutex_init(m) == IF m = "locked" THEN {"unlocked", "locked"} ELSE {"unlocked"}

(***************************************************************************)
(* The hidraw nodes of the system: devnode path, identity and the usage    *)
(* pairs of the report descriptor (one record is built per pair).          *)
(***************************************************************************)
Nodes == {1, 2}

NodePath(n) == IF n = 1 THEN "/dev/hidraw0" ELSE "/dev/hidraw1"
NodeVendor(n) == IF n = 1 THEN 1 ELSE 2
NodeProduct(n) == 1
NodeUsages(n) == IF n = 1 THEN <<1, 2>> ELSE <<6>>

(***************************************************************************)
(* Inputs of the API calls.                                                *)
(***************************************************************************)
\* user callback functions: "keep" returns 0, "once" returns 1
UserFns == {"keep", "once"}

Args(v, p, e, f, c, o) ==
    [vendor_id |-> v, product_id |-> p, events |-> e, flags |-> f, callback |-> c, out |-> o]

\* accepted registrations: wildcard, vendor and product filters, the event
\* masks, with and without ENUMERATE, with and without a handle slot
ValidArgs ==
    {Args(0, 0, 3, 1, "keep", TRUE), Args(1, 0, 3, 0, "once", TRUE),
     Args(0, 1, 1, 0, "keep", FALSE)}

\* registrations with one bad parameter
InvalidArgs ==
    {Args(0, 0, 0, 0, "keep", TRUE), Args(0, 0, 4, 0, "keep", TRUE),
     Args(0, 0, 3, 2, "keep", TRUE), Args(0, 0, 3, 1, NULL, TRUE)}

RegisterArgs == ValidArgs \cup InvalidArgs

\* failures of the environment during a registration
Failures == {"none", "calloc", "udev_new"}
\* values udev_monitor_get_fd can hand out
MonitorFds == {0, 3}

NoArgs == [none |-> TRUE]

\* the threads of the program that call the API
Callers == {1, 2}
\* a thread that is not inside a call
NotCalling == [pc |-> "idle", a |-> Args(0, 0, 0, 0, NULL, FALSE), handle |-> 0, id |-> 0]

\* no callback: the value of a callback pointer that designates nothing
NoCallback == [id |-> 0, handle |-> 0, vendor_id |-> 0, product_id |-> 0, events |-> 0,
               callback |-> NULL]

\* no dispatch is in progress
NoWalk == [t |-> 0, phase |-> "idle", raw_dev |-> [action |-> "none", node |-> 0],
           infos |-> <<>>, i |-> 0, prev |-> 0, chain |-> <<>>, callback |-> NoCallback,
           calls |-> <<>>]

VARIABLES
    hotplug_cbs,      \* hid_hotplug_context.hotplug_cbs, as a sequence
    next_handle,      \* hid_hotplug_context.next_handle
    monitor_fd,       \* hid_hotplug_context.monitor_fd
    mon,              \* udev_ctx and mon: "none", "live" or "released"
    devs,             \* hid_hotplug_context.devs, as a sequence
    threads,          \* hotplug_thread instances created so far: their position
    callback_handle,  \* the caller's handle slot (*callback_handle)
    connected,        \* nodes present in the system
    queue,            \* events pending on the udev monitor
    nreg,             \* callback records allocated so far
    nevents,          \* kernel events so far
    retired,          \* ids of callbacks that returned non-zero
    arrived,          \* <<id, path>> delivered with ARRIVED so far
    last,             \* the step just taken: operation, inputs, result, invocations
    mutex,            \* hid_hotplug_context.mutex
    last_global_error_str,  \* the global error text, NULL when there is none
    report_descriptor,  \* the descriptor bytes a walk of the parser reads
    pos,              \* the walk's cursor
    usage_page,       \* the walk's current usage page
    usage,            \* the walk's last usage
    pairs,            \* the pairs the walk has returned so far
    sysfs,            \* the hidraw nodes udev lists, in scan order
    enumeration,      \* the hid_enumerate call in progress
    dev,              \* the hid_device the caller got from hid_open_path
    open_fds,         \* the file descriptors of the process that are open
    callers,          \* the program's threads: where each is inside an API call
    received,         \* <<thread, event>>: what a worker received and has not handled
    walk              \* the dispatch a worker is in, callback by callback

hotVars == <<hotplug_cbs, next_handle, monitor_fd, mon, devs, threads,
             callback_handle, connected, queue, nreg, nevents, retired, arrived>>
libVars == <<mutex, last_global_error_str>>
parseVars == <<report_descriptor, pos, usage_page, usage, pairs>>
otherVars == <<parseVars, sysfs, enumeration, dev, open_fds, callers, received, walk>>

vars == <<hotVars, last, libVars, otherVars>>

(***************************************************************************)
(* Bit operations on non-negative integers.                                *)
(***************************************************************************)
RECURSIVE BitAnd(_, _)
BitAnd(a, b) ==
    IF a = 0 \/ b = 0 THEN 0
    ELSE (IF a % 2 = 1 /\ b % 2 = 1 THEN 1 ELSE 0) + 2 * BitAnd(a \div 2, b \div 2)

\* a & ~b
RECURSIVE BitAndNot(_, _)
BitAndNot(a, b) ==
    IF a = 0 THEN 0
    ELSE (IF a % 2 = 1 /\ b % 2 = 0 THEN 1 ELSE 0) + 2 * BitAndNot(a \div 2, b \div 2)

\* a | b
BitOr(a, b) == a + b - BitAnd(a, b)

\* a value of the handle type after an arithmetic step: two's complement
WrapInt(x) == ((x + HandleMod \div 2) % HandleMod) - HandleMod \div 2

(***************************************************************************)
(* Device records.                                                         *)
(***************************************************************************)
\* create_device_info_for_device: one record per usage pair of the node, all
\* with the node's path and identity; no record when the node is gone
RECURSIVE UsageRecords(_, _)
UsageRecords(n, usages) ==
    IF usages = <<>> THEN <<>>
    ELSE <<[path |-> NodePath(n), vendor_id |-> NodeVendor(n),
            product_id |-> NodeProduct(n), usage |-> Head(usages)]>>
         \o UsageRecords(n, Tail(usages))

create_device_info_for_device(n, present) ==
    IF n \notin present THEN <<>>
    ELSE IF NodeUsages(n) = <<>> THEN UsageRecords(n, <<0>>)
    ELSE UsageRecords(n, NodeUsages(n))

hid_internal_match_device_id(vendor_id, product_id, expected_vendor_id, expected_product_id) ==
    /\ (expected_vendor_id = 0 \/ vendor_id = expected_vendor_id)
    /\ (expected_product_id = 0 \/ product_id = expected_product_id)

\* hid_enumerate: the nodes in sysfs order, pre-filtered by identity, each
\* expanded by the builder and appended to the result
RECURSIVE EnumerateFrom(_, _, _, _)
EnumerateFrom(n, vendor_id, product_id, present) ==
    IF n > Cardinality(Nodes) THEN <<>>
    ELSE LET skip == \/ n \notin present
                     \/ (vendor_id # 0 /\ vendor_id # NodeVendor(n))
                     \/ (product_id # 0 /\ product_id # NodeProduct(n))
             tmp == IF skip THEN <<>> ELSE create_device_info_for_device(n, present)
         IN tmp \o EnumerateFrom(n + 1, vendor_id, product_id, present)

hid_enumerate(vendor_id, product_id, present) ==
    EnumerateFrom(1, vendor_id, product_id, present)

match_udev_to_info(path, info) == path = info.path

(***************************************************************************)
(* Dispatch.                                                               *)
(***************************************************************************)
\* what the user's function returns
UserResult(fn) == IF fn = "once" THEN 1 ELSE 0

\* hid_internal_invoke_callbacks: walks the list in order; a callback whose
\* mask and filter match is invoked, and unlinked when it returns non-zero.
\* Yields the list left and the invocations made, in order.
RECURSIVE InvokeWalkNoSplice(_, _, _)
InvokeWalkNoSplice(cbs, info, event) ==
    IF cbs = <<>> THEN [cbs |-> <<>>, calls |-> <<>>]
    ELSE LET callback == Head(cbs)
             hit == /\ BitAnd(callback.events, event) # 0
                    /\ hid_internal_match_device_id(info.vendor_id, info.product_id,
                                                    callback.vendor_id, callback.product_id)
             result == IF hit THEN UserResult(callback.callback) ELSE 0
             rest == InvokeWalkNoSplice(Tail(cbs), info, event)
             call == [id |-> callback.id, handle |-> callback.handle, path |-> info.path,
                      usage |-> info.usage, event |-> event, result |-> result]
         IN [cbs |-> <<callback>> \o rest.cbs,
             calls |-> IF hit THEN <<call>> \o rest.calls ELSE rest.calls]

RECURSIVE InvokeWalk(_, _, _)
InvokeWalk(cbs, info, event) ==
    IF cbs = <<>> THEN [cbs |-> <<>>, calls |-> <<>>]
    ELSE LET callback == Head(cbs)
             hit == /\ BitAnd(callback.events, event) # 0
                    /\ hid_internal_match_device_id(info.vendor_id, info.product_id,
                                                    callback.vendor_id, callback.product_id)
             result == IF hit THEN UserResult(callback.callback) ELSE 0
             rest == InvokeWalk(Tail(cbs), info, event)
             call == [id |-> callback.id, handle |-> callback.handle, path |-> info.path,
                      usage |-> info.usage, event |-> event, result |-> result]
         IN [cbs |-> IF hit /\ result # 0 THEN rest.cbs ELSE <<callback>> \o rest.cbs,
             calls |-> IF hit THEN <<call>> \o rest.calls ELSE rest.calls]

\* a walk whose splice also steps over the callback that follows
RECURSIVE InvokeWalkSkipAfterSplice(_, _, _)
InvokeWalkSkipAfterSplice(cbs, info, event) ==
    IF cbs = <<>> THEN [cbs |-> <<>>, calls |-> <<>>]
    ELSE LET callback == Head(cbs)
             hit == /\ BitAnd(callback.events, event) # 0
                    /\ hid_internal_match_device_id(info.vendor_id, info.product_id,
                                                    callback.vendor_id, callback.product_id)
             result == IF hit THEN UserResult(callback.callback) ELSE 0
             spliced == hit /\ result # 0
             tail == IF spliced /\ Len(cbs) > 1 THEN Tail(Tail(cbs)) ELSE Tail(cbs)
             kept == IF spliced /\ Len(cbs) > 1 THEN <<cbs[2]>> ELSE <<>>
             rest == InvokeWalkSkipAfterSplice(tail, info, event)
             call == [id |-> callback.id, handle |-> callback.handle, path |-> info.path,
                      usage |-> info.usage, event |-> event, result |-> result]
         IN [cbs |-> IF spliced THEN kept \o rest.cbs ELSE <<callback>> \o rest.cbs,
             calls |-> IF hit THEN <<call>> \o rest.calls ELSE rest.calls]

hid_internal_invoke_callbacks(cbs, info, event) == InvokeWalk(cbs, info, event)

\* the "add" branch of hotplug_thread: ARRIVED for each record of the sublist
RECURSIVE DispatchArrived(_, _)
DispatchArrived(cbs, infos) ==
    IF infos = <<>> THEN [cbs |-> cbs, calls |-> <<>>]
    ELSE LET one == hid_internal_invoke_callbacks(cbs, Head(infos),
                                                  HID_API_HOTPLUG_EVENT_DEVICE_ARRIVED)
             rest == DispatchArrived(one.cbs, Tail(infos))
         IN [cbs |-> rest.cbs, calls |-> one.calls \o rest.calls]

\* the "remove" branch of hotplug_thread: every record of devs whose path is the
\* event's devnode is detached and dispatched with LEFT; the others stay
\* a walk that stops at the first record it detaches
RECURSIVE RemoveFirstOnly(_, _, _)
RemoveFirstOnly(cbs, list, path) ==
    IF list = <<>> THEN [cbs |-> cbs, devs |-> <<>>, calls |-> <<>>]
    ELSE LET info == Head(list)
         IN IF match_udev_to_info(path, info)
            THEN LET one == hid_internal_invoke_callbacks(cbs, info,
                                                          HID_API_HOTPLUG_EVENT_DEVICE_LEFT)
                 IN [cbs |-> one.cbs, devs |-> Tail(list), calls |-> one.calls]
            ELSE LET rest == RemoveFirstOnly(cbs, Tail(list), path)
                 IN [cbs |-> rest.cbs, devs |-> <<info>> \o rest.devs, calls |-> rest.calls]

RECURSIVE RemoveWalk(_, _, _)
RemoveWalk(cbs, list, path) ==
    IF list = <<>> THEN [cbs |-> cbs, devs |-> <<>>, calls |-> <<>>]
    ELSE LET info == Head(list)
         IN IF match_udev_to_info(path, info)
            THEN LET one == hid_internal_invoke_callbacks(cbs, info,
                                                          HID_API_HOTPLUG_EVENT_DEVICE_LEFT)
                     rest == RemoveWalk(one.cbs, Tail(list), path)
                 IN [cbs |-> rest.cbs, devs |-> rest.devs, calls |-> one.calls \o rest.calls]
            ELSE LET rest == RemoveWalk(cbs, Tail(list), path)
                 IN [cbs |-> rest.cbs, devs |-> <<info>> \o rest.devs, calls |-> rest.calls]

(***************************************************************************)
(* Registration and deregistration helpers.                                *)
(***************************************************************************)
\* the parameter check of hid_hotplug_register_callback: TRUE when rejected
ParamsRejectedNoFlags(a) ==
    \/ a.events = 0
    \/ BitAndNot(a.events, BitOr(HID_API_HOTPLUG_EVENT_DEVICE_ARRIVED,
                                 HID_API_HOTPLUG_EVENT_DEVICE_LEFT)) # 0
    \/ a.callback = NULL

ParamsRejected(a) ==
    \/ a.events = 0
    \/ BitAndNot(a.events, BitOr(HID_API_HOTPLUG_EVENT_DEVICE_ARRIVED,
                                 HID_API_HOTPLUG_EVENT_DEVICE_LEFT)) # 0
    \/ BitAndNot(a.flags, HID_API_HOTPLUG_ENUMERATE) # 0
    \/ a.callback = NULL

\* next_handle after "next_handle++" and the overflow check
NextHandleNoReset(h) == WrapInt(h + 1)

NextHandle(h) ==
    LET inc == WrapInt(h + 1)
    IN IF inc < 0 THEN 1 ELSE inc

\* the unlink loop of hid_hotplug_deregister_callback: the first callback with
\* the handle is removed and the walk stops
RECURSIVE UnlinkDropTail(_, _)
UnlinkDropTail(cbs, h) ==
    IF cbs = <<>> THEN [cbs |-> <<>>, result |-> -1]
    ELSE IF Head(cbs).handle = h THEN [cbs |-> <<>>, result |-> 0]
    ELSE LET rest == UnlinkDropTail(Tail(cbs), h)
         IN [cbs |-> <<Head(cbs)>> \o rest.cbs, result |-> rest.result]

RECURSIVE Unlink(_, _)
Unlink(cbs, h) ==
    IF cbs = <<>> THEN [cbs |-> <<>>, result |-> -1]
    ELSE IF Head(cbs).handle = h THEN [cbs |-> Tail(cbs), result |-> 0]
    ELSE LET rest == Unlink(Tail(cbs), h)
         IN [cbs |-> <<Head(cbs)>> \o rest.cbs, result |-> rest.result]

\* hid_internal_hotplug_cleanup (the deregistration calls it by the name
\* hid_internal_cleanup_hotplugs): with no callback left, devs is freed and the
\* monitor and the udev context are unreferenced; monitor_fd is not touched
\* (unreferencing a monitor that was never created does nothing)
hid_internal_hotplug_cleanup(cbs, list, m) ==
    IF cbs = <<>> THEN [devs |-> <<>>, mon |-> IF m = "none" THEN "none" ELSE "released"]
    ELSE [devs |-> list, mon |-> m]

(***************************************************************************)
(* Bookkeeping of what has been delivered.                                 *)
(***************************************************************************)
Step(op, args, fail, issued, result, calls) ==
    [op |-> op, args |-> args, fail |-> fail, issued |-> issued,
     result |-> result, calls |-> calls]

RetiredBy(calls) == {calls[i].id : i \in {j \in DOMAIN calls : calls[j].result # 0}}

ArrivedBy(calls) ==
    {<<calls[i].id, calls[i].path>> :
        i \in {j \in DOMAIN calls : calls[j].event = HID_API_HOTPLUG_EVENT_DEVICE_ARRIVED}}

(***************************************************************************)
(* Initial state: the static initialiser of hid_hotplug_context; the first  *)
(* node is plugged in when the program starts, the second is not.          *)
(***************************************************************************)
HotplugInit ==
    /\ hotplug_cbs = <<>>
    /\ next_handle = 1
    /\ monitor_fd = -1
    /\ mon = "none"
    /\ devs = <<>>
    /\ threads = <<>>
    /\ callback_handle = 0
    /\ connected = {1}
    /\ queue = <<>>
    /\ nreg = 0
    /\ nevents = 0
    /\ retired = {}
    /\ arrived = {}
    /\ last = Step("init", NoArgs, "none", 0, 0, <<>>)
    /\ mutex = "static"
    /\ last_global_error_str = NULL

\* no descriptor is being walked
ParserIdle ==
    /\ report_descriptor = <<>>
    /\ pos = 0
    /\ usage_page = 0
    /\ usage = 0
    /\ pairs = <<>>

Init ==
    /\ HotplugInit
    /\ ParserIdle
    /\ sysfs = <<>>
    /\ enumeration = NoEnumeration
    /\ dev = NoDevice
    /\ open_fds = {}
    /\ callers = [c \in Callers |-> NotCalling]
    /\ received = {}
    /\ walk = NoWalk

(***************************************************************************)
(* hid_hotplug_register_callback                                           *)
(***************************************************************************)
Register(a, fail, fd, limit) ==
    /\ nreg < limit
    /\ Len(hotplug_cbs) < MaxCallbacks
    \* udev_monitor_get_fd is called only when the list was empty
    /\ hotplug_cbs # <<>> => fd = 3
    /\ UNCHANGED <<connected, nevents, retired, arrived, otherVars>>
    /\ IF ParamsRejected(a)
       THEN /\ fail = "none"
            /\ last' = Step("register", a, fail, 0, -1, <<>>)
            /\ UNCHANGED <<hotplug_cbs, next_handle, monitor_fd, mon, devs, threads,
                           callback_handle, queue, nreg, libVars>>
       ELSE IF fail = "calloc"
       THEN /\ last' = Step("register", a, fail, 0, -1, <<>>)
            /\ UNCHANGED <<hotplug_cbs, next_handle, monitor_fd, mon, devs, threads,
                           callback_handle, queue, nreg, libVars>>
       ELSE LET hotplug_cb == [id |-> nreg + 1, handle |-> next_handle,
                               vendor_id |-> a.vendor_id, product_id |-> a.product_id,
                               events |-> a.events, callback |-> a.callback]
            IN /\ nreg' = nreg + 1
               /\ next_handle' = NextHandle(next_handle)
               /\ callback_handle' = IF a.out THEN hotplug_cb.handle ELSE callback_handle
               /\ last' = Step("register", a, fail, hotplug_cb.handle, -1, <<>>)
               /\ IF hotplug_cbs # <<>>
                  THEN /\ fail = "none"
                       /\ hotplug_cbs' = Append(hotplug_cbs, hotplug_cb)
                       /\ UNCHANGED <<monitor_fd, mon, devs, threads, queue, libVars>>
                  ELSE IF fail = "udev_new"
                  THEN UNCHANGED <<hotplug_cbs, monitor_fd, mon, devs, threads, queue,
                                   libVars>>
                  ELSE /\ mon' = "live"
                       /\ queue' = <<>>
                       /\ monitor_fd' = fd
                       \* hid_enumerate starts with hid_init
                       /\ mutex' \in pthread_mutex_init(mutex)
                       /\ devs' = hid_enumerate(0, 0, connected)
                       /\ last_global_error_str' =
                              IF hid_enumerate(0, 0, connected) = <<>>
                              THEN ERR_NO_DEVICES ELSE NULL
                       /\ hotplug_cbs' = <<hotplug_cb>>
                       /\ threads' = Append(threads, "loop")

(***************************************************************************)
(* hid_hotplug_deregister_callback                                         *)
(***************************************************************************)
Deregister(callback_handle_arg) ==
    \* pthread_mutex_lock blocks while another thread holds the mutex
    /\ mutex # "locked"
    /\ UNCHANGED <<next_handle, monitor_fd, threads, callback_handle, connected,
                   nreg, nevents, retired, arrived, libVars, otherVars>>
    /\ IF hotplug_cbs = <<>>
       THEN /\ last' = Step("deregister", [handle |-> callback_handle_arg], "none", 0, -1, <<>>)
            /\ UNCHANGED <<hotplug_cbs, mon, devs, queue>>
       ELSE LET un == Unlink(hotplug_cbs, callback_handle_arg)
                cl == hid_internal_hotplug_cleanup(un.cbs, devs, mon)
            IN /\ hotplug_cbs' = un.cbs
               /\ devs' = cl.devs
               /\ mon' = cl.mon
               /\ queue' = IF cl.mon = "live" THEN queue ELSE <<>>
               /\ last' = Step("deregister", [handle |-> callback_handle_arg], "none", 0,
                               un.result, <<>>)

(***************************************************************************)
(* hotplug_thread                                                          *)
(***************************************************************************)
\* the loop condition
ThreadLoop(t) ==
    /\ threads[t] = "loop"
    /\ threads' = [threads EXCEPT ![t] = IF monitor_fd > 0 THEN "select" ELSE "exited"]
    /\ last' = Step("thread", NoArgs, "none", 0, 0, <<>>)
    /\ UNCHANGED <<hotplug_cbs, next_handle, monitor_fd, mon, devs, callback_handle,
                   connected, queue, nreg, nevents, retired, arrived, libVars, otherVars>>

\* select() times out or fails: nothing is pending on a live monitor
ThreadIdle(t) ==
    /\ threads[t] = "select"
    /\ mon # "live" \/ queue = <<>>
    /\ threads' = [threads EXCEPT ![t] = "loop"]
    /\ last' = Step("thread", NoArgs, "none", 0, 0, <<>>)
    /\ UNCHANGED <<hotplug_cbs, next_handle, monitor_fd, mon, devs, callback_handle,
                   connected, queue, nreg, nevents, retired, arrived, libVars, otherVars>>

\* select() reports the monitor readable: one event is received and handled
\* with the context mutex held
ThreadEvent(t) ==
    /\ threads[t] = "select"
    /\ mon = "live"
    /\ queue # <<>>
    /\ mutex # "locked"
    /\ LET raw_dev == Head(queue)
           info == create_device_info_for_device(raw_dev.node, connected)
           out == IF raw_dev.action = "add"
                  THEN LET d == DispatchArrived(hotplug_cbs, info)
                       IN [cbs |-> d.cbs, devs |-> devs \o info, calls |-> d.calls]
                  ELSE RemoveWalk(hotplug_cbs, devs, NodePath(raw_dev.node))
       IN /\ hotplug_cbs' = out.cbs
          /\ devs' = out.devs
          /\ retired' = retired \cup RetiredBy(out.calls)
          /\ arrived' = arrived \cup ArrivedBy(out.calls)
          /\ last' = Step("event", raw_dev, "none", 0, 0, out.calls)
    /\ queue' = Tail(queue)
    /\ threads' = [threads EXCEPT ![t] = "loop"]
    /\ UNCHANGED <<next_handle, monitor_fd, mon, callback_handle, connected, nreg, nevents,
                   libVars, otherVars>>

(***************************************************************************)
(* The kernel: a node is plugged in or pulled out; an armed monitor        *)
(* receives the event.                                                     *)
(***************************************************************************)
Kernel(action, n) ==
    /\ nevents < MaxEvents
    /\ nevents' = nevents + 1
    /\ IF action = "add" THEN n \notin connected /\ connected' = connected \cup {n}
                         ELSE n \in connected /\ connected' = connected \ {n}
    /\ queue' = IF mon = "live" THEN Append(queue, [action |-> action, node |-> n])
                ELSE queue
    /\ last' = Step("kernel", [action |-> action, node |-> n], "none", 0, 0, <<>>)
    /\ UNCHANGED <<hotplug_cbs, next_handle, monitor_fd, mon, devs, threads,
                   callback_handle, nreg, retired, arrived, libVars, otherVars>>

Next ==
    \/ \E a \in RegisterArgs, fail \in Failures, fd \in MonitorFds :
          Register(a, fail, fd, MaxReg)
    \/ \E h \in 1 .. (MaxReg + 1) : Deregister(h)
    \/ \E t \in DOMAIN threads : ThreadLoop(t)
    \/ \E t \in DOMAIN threads : ThreadIdle(t)
    \/ \E t \in DOMAIN threads : ThreadEvent(t)
    \/ \E action \in {"add", "remove"}, n \in Nodes : Kernel(action, n)

Spec == Init /\ [][Next]_vars

\* the registrations that succeed, the worker and the kernel, without
\* deregistrations and failures: the runs in which events are dispatched
NextDispatch ==
    \/ \E a \in ValidArgs : Register(a, "none", 3, MaxReg)
    \/ \E t \in DOMAIN threads : ThreadLoop(t)
    \/ \E t \in DOMAIN threads : ThreadIdle(t)
    \/ \E t \in DOMAIN threads : ThreadEvent(t)
    \/ \E action \in {"add", "remove"}, n \in Nodes : Kernel(action, n)

SpecDispatch == Init /\ [][NextDispatch]_vars

(***************************************************************************)
(* Library initialisation and shutdown.                                    *)
(***************************************************************************)
\* hid_init: the global error is cleared and hid_internal_hotplug_init
\* initialises the context mutex, on every call
HidInit ==
    /\ last_global_error_str' = NULL
    /\ mutex' \in pthread_mutex_init(mutex)
    /\ last' = Step("hid_init", NoArgs, "none", 0, 0, <<>>)
    /\ UNCHANGED <<hotVars, otherVars>>

\* hid_exit: under the mutex every callback is freed and the cleanup runs;
\* then the mutex is destroyed.  monitor_fd is not written and the worker is
\* not joined.  (A call after the monitor was released by a deregistration
\* would unreference it a second time; those calls are left out.)
HidExit ==
    /\ mutex # "locked"
    /\ mon # "released"
    /\ LET cl == hid_internal_hotplug_cleanup(<<>>, devs, mon)
       IN /\ hotplug_cbs' = <<>>
          /\ devs' = cl.devs
          /\ mon' = cl.mon
          /\ queue' = <<>>
    /\ mutex' = "destroyed"
    /\ last_global_error_str' = NULL
    /\ last' = Step("hid_exit", [armed |-> hotplug_cbs # <<>>], "none", 0, 0, <<>>)
    /\ UNCHANGED <<next_handle, monitor_fd, threads, callback_handle, connected,
                   nreg, nevents, retired, arrived, otherVars>>

\* hid_enumerate called by the program over the nodes of the hotplug runs
EnumerateCall(vendor_id, product_id) ==
    /\ mutex' \in pthread_mutex_init(mutex)
    /\ LET root == hid_enumerate(vendor_id, product_id, connected)
       IN /\ last_global_error_str' =
                IF root # <<>> THEN NULL
                ELSE IF vendor_id = 0 /\ product_id = 0 THEN ERR_NO_DEVICES
                ELSE ERR_NO_MATCH
          /\ last' = Step("enumerate", [vendor_id |-> vendor_id, product_id |-> product_id],
                          "none", 0, root, <<>>)
    /\ UNCHANGED <<hotVars, otherVars>>

\* the worker receives one event, locks the mutex and handles the event
ThreadLock(t) ==
    /\ threads[t] = "select"
    /\ mon = "live"
    /\ queue # <<>>
    /\ mutex # "locked"
    /\ mutex' = "locked"
    /\ LET raw_dev == Head(queue)
           info == create_device_info_for_device(raw_dev.node, connected)
           out == IF raw_dev.action = "add"
                  THEN LET d == DispatchArrived(hotplug_cbs, info)
                       IN [cbs |-> d.cbs, devs |-> devs \o info, calls |-> d.calls]
                  ELSE RemoveWalk(hotplug_cbs, devs, NodePath(raw_dev.node))
       IN /\ hotplug_cbs' = out.cbs
          /\ devs' = out.devs
          /\ retired' = retired \cup RetiredBy(out.calls)
          /\ arrived' = arrived \cup ArrivedBy(out.calls)
          /\ last' = Step("event", raw_dev, "none", 0, 0, out.calls)
    /\ queue' = Tail(queue)
    /\ threads' = [threads EXCEPT ![t] = "locked"]
    /\ UNCHANGED <<next_handle, monitor_fd, mon, callback_handle, connected, nreg, nevents,
                   last_global_error_str, otherVars>>

\* the worker leaves the critical section
ThreadUnlock(t) ==
    /\ threads[t] = "locked"
    /\ threads' = [threads EXCEPT ![t] = "loop"]
    /\ mutex' = IF mutex = "locked" THEN "unlocked" ELSE mutex
    /\ last' = Step("thread", NoArgs, "none", 0, 0, <<>>)
    /\ UNCHANGED <<hotplug_cbs, next_handle, monitor_fd, mon, devs, callback_handle,
                   connected, queue, nreg, nevents, retired, arrived,
                   last_global_error_str, otherVars>>

LibArgs == {Args(0, 0, 3, 0, "keep", TRUE)}

NextLib ==
    \/ \E a \in LibArgs, fd \in MonitorFds : Register(a, "none", fd, MaxLibReg)
    \/ \E h \in 1 .. MaxLibReg : Deregister(h)
    \/ HidInit
    \/ HidExit
    \/ \E v \in {0, 2} : EnumerateCall(v, 0)
    \/ \E t \in DOMAIN threads : ThreadLoop(t)
    \/ \E t \in DOMAIN threads : ThreadIdle(t)
    \/ \E t \in DOMAIN threads : ThreadLock(t)
    \/ \E t \in DOMAIN threads : ThreadUnlock(t)
    \/ \E action \in {"add", "remove"}, n \in Nodes : Kernel(action, n)

SpecLib == Init /\ [][NextLib]_vars

(***************************************************************************)
(* Runs of registrations and deregistrations alone, long enough for the    *)
(* handle counter to pass its maximum.                                     *)
(***************************************************************************)
HandleRunArgs == {Args(0, 0, 3, 0, "keep", TRUE), Args(1, 0, 1, 1, "once", FALSE)}

NextHandles ==
    \/ \E a \in HandleRunArgs, fail \in {"none", "udev_new"} :
          Register(a, fail, 3, MaxHandleReg)
    \/ \E h \in 1 .. HandleMax : Deregister(h)

SpecHandles == Init /\ [][NextHandles]_vars

(***************************************************************************)
(* The calls and the worker step by step: two threads of the program call  *)
(* the API while the worker runs.  A step is one access to the context.    *)
(***************************************************************************)
\* no thread has aborted the process
Alive == \A t \in DOMAIN threads : threads[t] # "aborted"

RaceArgs == {Args(0, 0, 3, 0, "keep", TRUE)}

\* hid_hotplug_register_callback up to the filled record: the parameters are
\* accepted and the record is allocated
RegisterEnter(c, a) ==
    /\ Alive
    /\ callers[c].pc = "idle"
    /\ nreg < MaxRaceReg
    /\ ~ParamsRejected(a)
    /\ nreg' = nreg + 1
    /\ callers' = [callers EXCEPT ![c] = [pc |-> "handle", a |-> a, handle |-> 0,
                                          id |-> nreg + 1]]
    /\ last' = Step("register_enter", a, "none", 0, 0, <<>>)
    /\ UNCHANGED <<hotplug_cbs, next_handle, monitor_fd, mon, devs, threads,
                   callback_handle, connected, queue, nevents, retired, arrived,
                   libVars, parseVars, sysfs, enumeration, dev, open_fds, received, walk>>

\* hotplug_cb->handle = next_handle++ : the read
RegisterReadHandle(c) ==
    /\ Alive
    /\ callers[c].pc = "handle"
    /\ callers' = [callers EXCEPT ![c].pc = "increment", ![c].handle = next_handle]
    /\ last' = Step("register_read", callers[c].a, "none", next_handle, 0, <<>>)
    /\ UNCHANGED <<hotVars, libVars, parseVars, sysfs, enumeration, dev, open_fds,
                   received, walk>>

\* next_handle++ : the write of the value read plus one, then the overflow
\* check and the store through callback_handle
RegisterIncrement(c) ==
    /\ Alive
    /\ callers[c].pc = "increment"
    /\ next_handle' = NextHandle(callers[c].handle)
    /\ callback_handle' = IF callers[c].a.out THEN callers[c].handle ELSE callback_handle
    /\ callers' = [callers EXCEPT ![c].pc = "append"]
    /\ last' = Step("register_increment", callers[c].a, "none", callers[c].handle, 0, <<>>)
    /\ UNCHANGED <<hotplug_cbs, monitor_fd, mon, devs, threads, connected, queue, nreg,
                   nevents, retired, arrived, libVars, parseVars, sysfs, enumeration,
                   dev, open_fds, received, walk>>

\* the append to the list, or, with an empty list, the arming; no lock is
\* taken
RegisterAppend(c, fd) ==
    /\ Alive
    /\ callers[c].pc = "append"
    /\ hotplug_cbs # <<>> => fd = 3
    /\ LET a == callers[c].a
           hotplug_cb == [id |-> callers[c].id, handle |-> callers[c].handle,
                          vendor_id |-> a.vendor_id, product_id |-> a.product_id,
                          events |-> a.events, callback |-> a.callback]
       IN /\ last' = Step("register_append", a, "none", hotplug_cb.handle, -1, <<>>)
          /\ IF hotplug_cbs # <<>>
             THEN /\ hotplug_cbs' = Append(hotplug_cbs, hotplug_cb)
                  /\ UNCHANGED <<monitor_fd, mon, devs, threads, queue, libVars>>
             ELSE /\ mon' = "live"
                  /\ queue' = <<>>
                  /\ monitor_fd' = fd
                  /\ mutex' \in pthread_mutex_init(mutex)
                  /\ devs' = hid_enumerate(0, 0, connected)
                  /\ last_global_error_str' =
                         IF hid_enumerate(0, 0, connected) = <<>>
                         THEN ERR_NO_DEVICES ELSE NULL
                  /\ hotplug_cbs' = <<hotplug_cb>>
                  /\ threads' = Append(threads, "loop")
    /\ callers' = [callers EXCEPT ![c] = NotCalling]
    /\ UNCHANGED <<next_handle, callback_handle, connected, nreg, nevents, retired,
                   arrived, parseVars, sysfs, enumeration, dev, open_fds, received, walk>>

\* hid_hotplug_deregister_callback: pthread_mutex_lock
DeregisterLock(c, callback_handle_arg) ==
    /\ Alive
    /\ callers[c].pc = "idle"
    /\ mutex # "locked"
    /\ mutex' = "locked"
    /\ callers' = [callers EXCEPT ![c] = [NotCalling EXCEPT !.pc = "unlink",
                                                            !.handle = callback_handle_arg]]
    /\ last' = Step("deregister_lock", [handle |-> callback_handle_arg], "none", 0, 0, <<>>)
    /\ UNCHANGED <<hotVars, last_global_error_str, parseVars, sysfs, enumeration, dev,
                   open_fds, received, walk>>

\* hid_hotplug_deregister_callback: the unlink, the cleanup and the unlock
DeregisterUnlink(c) ==
    /\ Alive
    /\ callers[c].pc = "unlink"
    /\ mutex' = "unlocked"
    /\ callers' = [callers EXCEPT ![c] = NotCalling]
    /\ IF hotplug_cbs = <<>>
       THEN /\ last' = Step("deregister", [handle |-> callers[c].handle], "none", 0, -1, <<>>)
            /\ UNCHANGED <<hotplug_cbs, mon, devs, queue>>
       ELSE LET un == Unlink(hotplug_cbs, callers[c].handle)
                cl == hid_internal_hotplug_cleanup(un.cbs, devs, mon)
            IN /\ hotplug_cbs' = un.cbs
               /\ devs' = cl.devs
               /\ mon' = cl.mon
               /\ queue' = IF cl.mon = "live" THEN queue ELSE <<>>
               /\ last' = Step("deregister", [handle |-> callers[c].handle], "none", 0,
                               un.result, <<>>)
    /\ UNCHANGED <<next_handle, monitor_fd, threads, callback_handle, connected, nreg,
                   nevents, retired, arrived, last_global_error_str, parseVars, sysfs,
                   enumeration, dev, open_fds, received, walk>>

\* select() reports the monitor readable
ThreadReadable(t) ==
    /\ Alive
    /\ threads[t] = "select"
    /\ mon = "live"
    /\ queue # <<>>
    /\ threads' = [threads EXCEPT ![t] = "readable"]
    /\ last' = Step("thread", NoArgs, "none", 0, 0, <<>>)
    /\ UNCHANGED <<hotplug_cbs, next_handle, monitor_fd, mon, devs, callback_handle,
                   connected, queue, nreg, nevents, retired, arrived, libVars, otherVars>>

\* udev_monitor_receive_device(mon), before the mutex is taken.  On a live
\* monitor the pending event is received, or NULL when another worker took
\* it.  On a monitor that was unreferenced the call reads freed memory: it
\* returns NULL or aborts the process.
ThreadReceive(t, ub) ==
    /\ Alive
    /\ threads[t] = "readable"
    /\ mon = "live" => ub = "null"
    /\ IF mon = "live" /\ queue # <<>>
       THEN /\ received' = received \cup {<<t, Head(queue)>>}
            /\ queue' = Tail(queue)
            /\ threads' = [threads EXCEPT ![t] = "received"]
       ELSE /\ threads' = [threads EXCEPT ![t] = IF ub = "null" THEN "loop" ELSE "aborted"]
            /\ UNCHANGED <<received, queue>>
    /\ last' = Step("receive", [live |-> mon = "live"], "none", 0, 0, <<>>)
    /\ UNCHANGED <<hotplug_cbs, next_handle, monitor_fd, mon, devs, callback_handle,
                   connected, nreg, nevents, retired, arrived, libVars, parseVars, sysfs,
                   enumeration, dev, open_fds, callers, walk>>

\* pthread_mutex_lock and the handling of the received event
ThreadHandle(t) ==
    /\ Alive
    /\ threads[t] = "received"
    /\ mutex # "locked"
    /\ mutex' = "locked"
    /\ \E r \in received :
          /\ r[1] = t
          /\ received' = received \ {r}
          /\ LET raw_dev == r[2]
                 info == create_device_info_for_device(raw_dev.node, connected)
                 out == IF raw_dev.action = "add"
                        THEN LET d == DispatchArrived(hotplug_cbs, info)
                             IN [cbs |-> d.cbs, devs |-> devs \o info, calls |-> d.calls]
                        ELSE RemoveWalk(hotplug_cbs, devs, NodePath(raw_dev.node))
             IN /\ hotplug_cbs' = out.cbs
                /\ devs' = out.devs
                /\ retired' = retired \cup RetiredBy(out.calls)
                /\ arrived' = arrived \cup ArrivedBy(out.calls)
                /\ last' = Step("event", raw_dev, "none", 0, 0, out.calls)
    /\ threads' = [threads EXCEPT ![t] = "locked"]
    /\ UNCHANGED <<next_handle, monitor_fd, mon, callback_handle, connected, queue, nreg,
                   nevents, last_global_error_str, parseVars, sysfs, enumeration, dev,
                   open_fds, callers, walk>>

NextRace ==
    \/ \E c \in Callers, a \in RaceArgs : RegisterEnter(c, a)
    \/ \E c \in Callers : RegisterReadHandle(c)
    \/ \E c \in Callers : RegisterIncrement(c)
    \/ \E c \in Callers : RegisterAppend(c, 3)
    \/ \E c \in Callers, h \in 1 .. MaxRaceReg : DeregisterLock(c, h)
    \/ \E c \in Callers : DeregisterUnlink(c)
    \/ \E t \in DOMAIN threads : Alive /\ ThreadLoop(t)
    \/ \E t \in DOMAIN threads : Alive /\ ThreadIdle(t)
    \/ \E t \in DOMAIN threads : ThreadReadable(t)
    \/ \E t \in DOMAIN threads, ub \in {"null", "abort"} : ThreadReceive(t, ub)
    \/ \E t \in DOMAIN threads : ThreadHandle(t)
    \/ \E t \in DOMAIN threads : Alive /\ ThreadUnlock(t)
    \/ \E action \in {"add", "remove"} : Alive /\ Kernel(action, 1)

SpecRace == Init /\ [][NextRace]_vars

(***************************************************************************)
(* The dispatch callback by callback: the worker's critical section is     *)
(* taken one list access at a time while the program deregisters and calls *)
(* hid_init and hid_enumerate.  One dispatch is followed at a time.        *)
(***************************************************************************)
\* the ids of the callbacks in the list: the nodes that are allocated
Ids(cbs) == {cbs[k].id : k \in DOMAIN cbs}

\* the nodes that follow the node with this id in the list; the whole list
\* for the head pointer (id 0)
After(cbs, id) ==
    IF id = 0 THEN cbs
    ELSE LET k == CHOOSE j \in DOMAIN cbs : cbs[j].id = id
         IN SubSeq(cbs, k + 1, Len(cbs))

\* the list without the node with this id
Without(cbs, id) == SelectSeq(cbs, LAMBDA c : c.id # id)

\* `current` points to the head pointer or into a node that is allocated
CurrentLive == walk.prev = 0 \/ walk.prev \in Ids(hotplug_cbs)

\* select() reports the monitor readable, the event is received and the
\* mutex is locked; the records to dispatch are the built ones ("add") or
\* the ones detached from devs ("remove")
ThreadEnter(t) ==
    /\ Alive
    /\ walk.phase = "idle"
    /\ threads[t] = "select"
    /\ mon = "live"
    /\ queue # <<>>
    /\ mutex # "locked"
    /\ mutex' = "locked"
    /\ LET raw_dev == Head(queue)
           path == NodePath(raw_dev.node)
           infos == IF raw_dev.action = "add"
                    THEN create_device_info_for_device(raw_dev.node, connected)
                    ELSE SelectSeq(devs, LAMBDA info : match_udev_to_info(path, info))
       IN /\ walk' = [NoWalk EXCEPT !.t = t, !.phase = "walk", !.raw_dev = raw_dev,
                                    !.infos = infos, !.i = 1]
          /\ devs' = IF raw_dev.action = "add" THEN devs
                     ELSE SelectSeq(devs, LAMBDA info : ~match_udev_to_info(path, info))
          /\ last' = Step("walk_enter", raw_dev, "none", 0, 0, <<>>)
    /\ queue' = Tail(queue)
    /\ threads' = [threads EXCEPT ![t] = "locked"]
    /\ UNCHANGED <<hotplug_cbs, next_handle, monitor_fd, mon, callback_handle, connected,
                   nreg, nevents, retired, arrived, last_global_error_str, parseVars,
                   sysfs, enumeration, dev, open_fds, callers, received>>

\* hid_internal_invoke_callbacks: callback = *current.  When `current` points
\* into a node that was freed the read is of freed memory: it yields what the
\* node held when the walk passed it, or the process aborts.
ThreadFetch(t, ub) ==
    /\ Alive
    /\ walk.t = t
    /\ walk.phase = "walk"
    /\ walk.i <= Len(walk.infos)
    /\ CurrentLive => ub = "value"
    /\ IF ub = "abort"
       THEN /\ threads' = [threads EXCEPT ![t] = "aborted"]
            /\ UNCHANGED walk
       ELSE LET chain == IF CurrentLive THEN After(hotplug_cbs, walk.prev) ELSE walk.chain
            IN /\ walk' = IF chain = <<>>
                          THEN [walk EXCEPT !.i = walk.i + 1, !.prev = 0, !.chain = <<>>,
                                            !.callback = NoCallback]
                          ELSE [walk EXCEPT !.phase = "fetched", !.callback = Head(chain),
                                            !.chain = Tail(chain)]
               /\ UNCHANGED threads
    /\ last' = Step("walk_fetch", walk.raw_dev, "none", 0, 0, <<>>)
    /\ UNCHANGED <<hotplug_cbs, next_handle, monitor_fd, mon, devs, callback_handle,
                   connected, queue, nreg, nevents, retired, arrived, libVars, parseVars,
                   sysfs, enumeration, dev, open_fds, callers, received>>

\* the event of the dispatch in progress
WalkEvent ==
    IF walk.raw_dev.action = "add" THEN HID_API_HOTPLUG_EVENT_DEVICE_ARRIVED
    ELSE HID_API_HOTPLUG_EVENT_DEVICE_LEFT

\* the test of the callback's mask and filter and the call of its function;
\* a callback that was freed after the fetch is read from freed memory
ThreadCall(t, ub) ==
    /\ Alive
    /\ walk.t = t
    /\ walk.phase = "fetched"
    /\ walk.callback.id \in Ids(hotplug_cbs) => ub = "value"
    /\ IF ub = "abort"
       THEN /\ threads' = [threads EXCEPT ![t] = "aborted"]
            /\ UNCHANGED walk
       ELSE LET callback == walk.callback
                info == walk.infos[walk.i]
                hit == /\ BitAnd(callback.events, WalkEvent) # 0
                       /\ hid_internal_match_device_id(info.vendor_id, info.product_id,
                                                       callback.vendor_id, callback.product_id)
            IN /\ walk' = IF hit THEN [walk EXCEPT !.phase = "invoking"]
                          ELSE [walk EXCEPT !.phase = "walk", !.prev = callback.id]
               /\ UNCHANGED threads
    /\ last' = Step("walk_call", walk.raw_dev, "none", walk.callback.handle, 0, <<>>)
    /\ UNCHANGED <<hotplug_cbs, next_handle, monitor_fd, mon, devs, callback_handle,
                   connected, queue, nreg, nevents, retired, arrived, libVars, parseVars,
                   sysfs, enumeration, dev, open_fds, callers, received>>

\* the user's function returns: on a non-zero result the node `current`
\* designates is unlinked and freed, otherwise `current` moves into the
\* callback.  With `current` in a freed node the unlink writes freed memory.
ThreadReturn(t, ub) ==
    /\ Alive
    /\ walk.t = t
    /\ walk.phase = "invoking"
    /\ LET callback == walk.callback
           info == walk.infos[walk.i]
           result == UserResult(callback.callback)
           call == [id |-> callback.id, handle |-> callback.handle, path |-> info.path,
                    usage |-> info.usage, event |-> WalkEvent, result |-> result]
           designated == After(hotplug_cbs, walk.prev)
           defined == result = 0 \/ (CurrentLive /\ designated # <<>>)
       IN /\ defined => ub = "value"
          /\ IF ub = "abort"
             THEN /\ threads' = [threads EXCEPT ![t] = "aborted"]
                  /\ UNCHANGED <<walk, hotplug_cbs, retired, arrived>>
             ELSE /\ walk' = [walk EXCEPT !.phase = "walk",
                                          !.prev = IF result = 0 THEN callback.id ELSE walk.prev,
                                          !.calls = Append(walk.calls, call)]
                  /\ hotplug_cbs' =
                         IF result = 0 THEN hotplug_cbs
                         ELSE IF defined THEN Without(hotplug_cbs, Head(designated).id)
                         ELSE Without(hotplug_cbs, callback.id)
                  /\ retired' = retired \cup RetiredBy(<<call>>)
                  /\ arrived' = arrived \cup ArrivedBy(<<call>>)
                  /\ UNCHANGED threads
          /\ last' = Step("walk_return", walk.raw_dev, "none", callback.handle, result, <<>>)
    /\ UNCHANGED <<next_handle, monitor_fd, mon, devs, callback_handle, connected, queue,
                   nreg, nevents, libVars, parseVars, sysfs, enumeration, dev, open_fds,
                   callers, received>>

\* every record is dispatched: the built records are appended to devs
\* ("add") and the mutex is unlocked
ThreadLeave(t) ==
    /\ Alive
    /\ walk.t = t
    /\ walk.phase = "walk"
    /\ walk.i > Len(walk.infos)
    /\ devs' = IF walk.raw_dev.action = "add" THEN devs \o walk.infos ELSE devs
    /\ mutex' = IF mutex = "locked" THEN "unlocked" ELSE mutex
    /\ threads' = [threads EXCEPT ![t] = "loop"]
    /\ walk' = NoWalk
    /\ last' = Step("event", walk.raw_dev, "none", 0, 0, walk.calls)
    /\ UNCHANGED <<hotplug_cbs, next_handle, monitor_fd, mon, callback_handle, connected,
                   queue, nreg, nevents, retired, arrived, last_global_error_str,
                   parseVars, sysfs, enumeration, dev, open_fds, callers, received>>

TeardownArgs == {Args(0, 0, 3, 0, "keep", TRUE), Args(1, 0, 3, 0, "once", TRUE)}

NextTeardown ==
    \/ \E a \in TeardownArgs : Alive /\ Register(a, "none", 3, MaxTeardownReg)
    \/ \E h \in 1 .. MaxTeardownReg : Alive /\ Deregister(h)
    \/ Alive /\ HidInit
    \/ Alive /\ EnumerateCall(0, 0)
    \/ \E t \in DOMAIN threads : Alive /\ ThreadLoop(t)
    \/ \E t \in DOMAIN threads : Alive /\ ThreadIdle(t)
    \/ \E t \in DOMAIN threads : ThreadEnter(t)
    \/ \E t \in DOMAIN threads, ub \in {"value", "abort"} : ThreadFetch(t, ub)
    \/ \E t \in DOMAIN threads, ub \in {"value", "abort"} : ThreadCall(t, ub)
    \/ \E t \in DOMAIN threads, ub \in {"value", "abort"} : ThreadReturn(t, ub)
    \/ \E t \in DOMAIN threads : ThreadLeave(t)
    \/ \E action \in {"add", "remove"} : Alive /\ Kernel(action, 1)

SpecTeardown == Init /\ [][NextTeardown]_vars

(***************************************************************************)
(* The arming in two steps: the monitor is enabled, then devs is seeded.   *)
(* The kernel may report a node between the two.                           *)
(***************************************************************************)
SeedArgs == {Args(0, 0, 3, 0, "keep", TRUE)}

\* hid_hotplug_register_callback on an empty list, up to
\* udev_monitor_enable_receiving and udev_monitor_get_fd: the record is
\* filled, the handle is taken and the monitor receives events
RegisterEnable(c, a, fd) ==
    /\ callers[c].pc = "idle"
    /\ nreg < MaxSeedReg
    /\ ~ParamsRejected(a)
    /\ hotplug_cbs = <<>>
    /\ nreg' = nreg + 1
    /\ next_handle' = NextHandle(next_handle)
    /\ callback_handle' = IF a.out THEN next_handle ELSE callback_handle
    /\ mon' = "live"
    /\ queue' = <<>>
    /\ monitor_fd' = fd
    /\ callers' = [callers EXCEPT ![c] = [pc |-> "seed", a |-> a, handle |-> next_handle,
                                          id |-> nreg + 1]]
    /\ last' = Step("register_enable", a, "none", next_handle, 0, <<>>)
    /\ UNCHANGED <<hotplug_cbs, devs, threads, connected, nevents, retired, arrived,
                   libVars, parseVars, sysfs, enumeration, dev, open_fds, received, walk>>

\* the rest of the arming: devs = hid_enumerate(0, 0), the callback becomes
\* the list and the worker is created
RegisterSeed(c) ==
    /\ callers[c].pc = "seed"
    /\ LET a == callers[c].a
           hotplug_cb == [id |-> callers[c].id, handle |-> callers[c].handle,
                          vendor_id |-> a.vendor_id, product_id |-> a.product_id,
                          events |-> a.events, callback |-> a.callback]
       IN /\ mutex' \in pthread_mutex_init(mutex)
          /\ devs' = hid_enumerate(0, 0, connected)
          /\ last_global_error_str' =
                 IF hid_enumerate(0, 0, connected) = <<>> THEN ERR_NO_DEVICES ELSE NULL
          /\ hotplug_cbs' = <<hotplug_cb>>
          /\ threads' = Append(threads, "loop")
          /\ last' = Step("register", a, "none", hotplug_cb.handle, -1, <<>>)
    /\ callers' = [callers EXCEPT ![c] = NotCalling]
    /\ UNCHANGED <<next_handle, monitor_fd, mon, callback_handle, connected, queue, nreg,
                   nevents, retired, arrived, parseVars, sysfs, enumeration, dev, open_fds,
                   received, walk>>

NextSeed ==
    \/ \E a \in SeedArgs : RegisterEnable(1, a, 3)
    \/ RegisterSeed(1)
    \/ \E a \in SeedArgs : hotplug_cbs # <<>> /\ Register(a, "none", 3, MaxSeedReg)
    \/ \E h \in 1 .. MaxSeedReg : callers[1].pc = "idle" /\ Deregister(h)
    \/ \E t \in DOMAIN threads : ThreadLoop(t)
    \/ \E t \in DOMAIN threads : ThreadIdle(t)
    \/ \E t \in DOMAIN threads : ThreadEvent(t)
    \/ \E action \in {"add", "remove"}, n \in Nodes : Kernel(action, n)

SpecSeed == Init /\ [][NextSeed]_vars

(***************************************************************************)
(* The report-descriptor parser.  A descriptor is a sequence of bytes;      *)
(* the C index i is the index i + 1 here.                                  *)
(***************************************************************************)
Byte(rpt, i) == rpt[i + 1]

\* a __u32, held as its two 16-bit halves
U32(hi, lo) == [hi |-> hi % 65536, lo |-> lo % 65536]

\* a __u32 stored into an unsigned short: the low half is kept
U16(x) == x.lo

\* get_hid_item_size: a long item whose length byte is inside the buffer is
\* sized from that byte; for one whose length byte is missing the zeros are
\* stored and control goes on into the short-item code, which sizes the item
\* from the two low bits of the key.  No path returns 0.
get_hid_item_size(rpt, p, size) ==
    LET key == Byte(rpt, p)
        size_code == BitAnd(key, 3)
    IN IF BitAnd(key, 240) = 240 /\ p + 1 < size
       THEN [ret |-> 1, data_len |-> Byte(rpt, p + 1), key_size |-> 3]
       ELSE IF size_code = 3
       THEN [ret |-> 1, data_len |-> 4, key_size |-> 1]
       ELSE [ret |-> 1, data_len |-> size_code, key_size |-> 1]

\* (a decoder that takes the two-byte value with the high byte first)
BytesBigEndian(rpt, len, num_bytes, cur) ==
    IF cur + num_bytes >= len THEN U32(0, 0)
    ELSE IF num_bytes = 0 THEN U32(0, 0)
    ELSE IF num_bytes = 1 THEN U32(0, Byte(rpt, cur + 1))
    ELSE IF num_bytes = 2 THEN U32(0, Byte(rpt, cur + 1) * 256 + Byte(rpt, cur + 2))
    ELSE IF num_bytes = 4
    THEN U32(Byte(rpt, cur + 4) * 256 + Byte(rpt, cur + 3),
             Byte(rpt, cur + 2) * 256 + Byte(rpt, cur + 1))
    ELSE U32(0, 0)

get_hid_report_bytes(rpt, len, num_bytes, cur) ==
    IF cur + num_bytes >= len THEN U32(0, 0)
    ELSE IF num_bytes = 0 THEN U32(0, 0)
    ELSE IF num_bytes = 1 THEN U32(0, Byte(rpt, cur + 1))
    ELSE IF num_bytes = 2 THEN U32(0, Byte(rpt, cur + 2) * 256 + Byte(rpt, cur + 1))
    ELSE IF num_bytes = 4
    THEN U32(Byte(rpt, cur + 4) * 256 + Byte(rpt, cur + 3),
             Byte(rpt, cur + 2) * 256 + Byte(rpt, cur + 1))
    ELSE U32(0, 0)

\* the indices of rpt that get_hid_report_bytes reads, in the order of the
\* source text
BytesRead(len, num_bytes, cur) ==
    IF cur + num_bytes >= len THEN <<>>
    ELSE IF num_bytes = 1 THEN <<cur + 1>>
    ELSE IF num_bytes = 2 THEN <<cur + 2, cur + 1>>
    ELSE IF num_bytes = 4 THEN <<cur + 4, cur + 3, cur + 2, cur + 1>>
    ELSE <<>>

\* rpt[cur + 4] * 0x01000000 is a product of two ints: it exceeds INT_MAX
\* when the byte is 128 or more
IntOverflows(rpt, len, num_bytes, cur) ==
    /\ num_bytes = 4
    /\ cur + num_bytes < len
    /\ Byte(rpt, cur + 4) >= 128

\* the loop of get_next_hid_usage and the test that follows it
RECURSIVE WalkItems(_, _, _, _, _, _, _)
WalkItems(rpt, size, p, page, us, usage_found, initial) ==
    IF p < size
    THEN LET key == Byte(rpt, p)
             key_cmd == BitAnd(key, 252)
             item == get_hid_item_size(rpt, p, size)
         IN IF item.ret = 0
            THEN [ret |-> -1, pos |-> p, usage_page |-> page, usage |-> us]
            ELSE LET page1 == IF key_cmd = 4
                              THEN U16(get_hid_report_bytes(rpt, size, item.data_len, p))
                              ELSE page
                     us1 == IF key_cmd = 8
                            THEN U16(get_hid_report_bytes(rpt, size, item.data_len, p))
                            ELSE us
                     usage_pair_ready == key_cmd = 160 /\ usage_found
                     found1 == IF key_cmd = 8 THEN TRUE
                               ELSE IF key_cmd \in {160, 128, 144, 176, 192} THEN FALSE
                               ELSE usage_found
                     p1 == p + item.data_len + item.key_size
                 IN IF usage_pair_ready
                    THEN [ret |-> 0, pos |-> p1, usage_page |-> page1, usage |-> us1]
                    ELSE WalkItems(rpt, size, p1, page1, us1, found1, initial)
    ELSE IF initial /\ usage_found
    THEN [ret |-> 0, pos |-> p, usage_page |-> page, usage |-> us]
    ELSE [ret |-> 1, pos |-> p, usage_page |-> page, usage |-> us]

\* (a walk that takes the pair pending at the end in every call)
WalkEndPairAlways(rpt, size, p, page, us) ==
    WalkItems(rpt, size, p, page, us, FALSE, TRUE)

\* (a walk that takes a Usage as found when the call starts, and the pair
\* pending at the end in every call)
WalkUsageFoundAtStart(rpt, size, p, page, us) ==
    WalkItems(rpt, size, p, page, us, TRUE, TRUE)

\* (a walk that never takes the pair that is pending at the end)
WalkWithoutEndPair(rpt, size, p, page, us) ==
    WalkItems(rpt, size, p, page, us, FALSE, FALSE)

get_next_hid_usage(rpt, size, p, page, us) ==
    WalkItems(rpt, size, p, page, us, FALSE, p = 0)

\* the bytes the descriptors of the parser runs are built from: an item of
\* no interest with one data byte (also the data byte), Usage Page, Usage,
\* Input, Collection, End Collection and a long-item prefix
DescBytes == {1, 5, 9, 129, 161, 192, 240}

\* descriptors with wider items and with several collections
LongerDescriptors ==
    { <<5, 1, 9, 2, 161, 1, 192>>,
      <<5, 1, 9, 6, 161, 1, 5, 12, 9, 1, 161, 2, 192, 192>>,
      <<6, 0, 255, 10, 1, 2, 161, 1, 192>>,
      <<11, 2, 0, 1, 0, 161, 1, 9, 3, 129, 2, 161, 0, 192, 192>>,
      <<5, 1, 9, 2, 161, 1, 254, 2, 0, 9, 9, 240>>,
      <<9, 2, 161, 1, 9, 6, 160, 9, 7>> }

Descriptors ==
    UNION {[1 .. k -> DescBytes] : k \in 0 .. MaxDescLen} \cup LongerDescriptors

\* a caller drives the parser the way create_device_info_for_device does:
\* from pos = 0, page = usage = 0, again and again; calls made after the
\* result was not 0 are included
InitParse ==
    /\ HotplugInit
    /\ report_descriptor \in Descriptors
    /\ pos = 0
    /\ usage_page = 0
    /\ usage = 0
    /\ pairs = <<>>
    /\ sysfs = <<>>
    /\ enumeration = NoEnumeration
    /\ dev = NoDevice
    /\ open_fds = {}
    /\ callers = [c \in Callers |-> NotCalling]
    /\ received = {}
    /\ walk = NoWalk

GetNextHidUsage ==
    /\ LET r == get_next_hid_usage(report_descriptor, Len(report_descriptor), pos,
                                   usage_page, usage)
       IN /\ pos' = r.pos
          /\ usage_page' = r.usage_page
          /\ usage' = r.usage
          /\ pairs' = IF r.ret = 0 THEN Append(pairs, <<r.usage_page, r.usage>>) ELSE pairs
          /\ last' = Step("get_next_hid_usage", [pos |-> pos], "none", 0, r.ret, <<>>)
    /\ UNCHANGED <<hotVars, libVars, report_descriptor, sysfs, enumeration, dev, open_fds, callers, received, walk>>

NextParse == GetNextHidUsage

SpecParse == InitParse /\ [][NextParse]_vars

\* get_hid_report_bytes alone: buffers of small, middle and large bytes, and
\* every cursor and width
ByteSamples == {1, 128, 255}

InitBytes ==
    /\ HotplugInit
    /\ report_descriptor \in UNION {[1 .. k -> ByteSamples] : k \in 0 .. MaxBytesLen}
    /\ pos = 0
    /\ usage_page = 0
    /\ usage = 0
    /\ pairs = <<>>
    /\ sysfs = <<>>
    /\ enumeration = NoEnumeration
    /\ dev = NoDevice
    /\ open_fds = {}
    /\ callers = [c \in Callers |-> NotCalling]
    /\ received = {}
    /\ walk = NoWalk

\* one call; where the int product overflows the build either wraps, which
\* gives the value of the unsigned sum, or traps
GetHidReportBytes(num_bytes, cur, ub) ==
    /\ LET len == Len(report_descriptor)
           overflows == IntOverflows(report_descriptor, len, num_bytes, cur)
       IN /\ ~overflows => ub = "wrap"
          /\ last' = Step("get_hid_report_bytes", [num_bytes |-> num_bytes, cur |-> cur],
                          IF ub = "trap" THEN "trap" ELSE "none", 0,
                          IF ub = "trap" THEN U32(0, 0)
                          ELSE get_hid_report_bytes(report_descriptor, len, num_bytes, cur),
                          BytesRead(len, num_bytes, cur))
    /\ UNCHANGED <<hotVars, libVars, otherVars>>

NextBytes ==
    \E num_bytes \in 0 .. 4, cur \in 0 .. MaxBytesLen, ub \in {"wrap", "trap"} :
        GetHidReportBytes(num_bytes, cur, ub)

SpecBytes == InitBytes /\ [][NextBytes]_vars

(***************************************************************************)
(* The hidraw nodes of the system, as udev and sysfs present them.  A node  *)
(* has or lacks a parent in the hid subsystem; its uevent text is a list of *)
(* lines; usb_dev holds the attributes of its usb_device ancestor, and is  *)
(* empty when there is none; its report_descriptor file holds bytes and    *)
(* can or cannot be opened.                                                *)
(***************************************************************************)
\* a line "HID_ID=bus:vendor:product" on which sscanf converts three fields
HidIdLine(bus, vendor, product) ==
    [key |-> "HID_ID", scanned |-> 3, bus |-> bus, vendor |-> vendor,
     product |-> product, value |-> ""]

\* a line "HID_ID=..." on which sscanf converts the bus field only
BadIdLine ==
    [key |-> "HID_ID", scanned |-> 1, bus |-> "BUS_USB", vendor |-> 0,
     product |-> 0, value |-> ""]

\* a line "KEY=value"
TextLine(key, value) ==
    [key |-> key, scanned |-> 0, bus |-> "", vendor |-> 0, product |-> 0, value |-> value]

\* a line without '='
PlainLine == TextLine(NULL, "")

Unreadable == [readable |-> FALSE, value |-> <<>>]
File(bytes) == [readable |-> TRUE, value |-> bytes]

RawDev(hid_dev, uevent, usb_dev, descriptor) ==
    [hid_dev |-> hid_dev, uevent |-> uevent, usb_dev |-> usb_dev,
     report_descriptor |-> descriptor]

UsbKeyboard ==
    RawDev(TRUE,
           <<TextLine("DRIVER", "hid-generic"), HidIdLine("BUS_USB", 1, 1),
             TextLine("HID_NAME", "Keys"), TextLine("HID_UNIQ", "abc")>>,
           <<[manufacturer |-> "Acme", product |-> "K1", bcdDevice |-> 256,
              bInterfaceNumber |-> 0]>>,
           File(<<5, 1, 9, 6, 161, 1, 5, 12, 9, 1, 161, 2, 192, 192>>))

\* a uhid device on the USB bus: no usb_device ancestor
UhidMouse ==
    RawDev(TRUE,
           <<HidIdLine("BUS_USB", 1, 2), TextLine("HID_NAME", "Mouse"),
             TextLine("HID_UNIQ", "")>>,
           <<>>,
           File(<<5, 1, 9, 2, 161, 1, 192>>))

BluetoothUnreadable ==
    RawDev(TRUE,
           <<HidIdLine("BUS_BLUETOOTH", 2, 1), TextLine("HID_NAME", "Pad"),
             TextLine("HID_UNIQ", "00:11")>>,
           <<>>, Unreadable)

I2cNoPairs ==
    RawDev(TRUE,
           <<HidIdLine("BUS_I2C", 2, 2), PlainLine, TextLine("HID_NAME", "Touch"),
             TextLine("HID_UNIQ", "")>>,
           <<>>, File(<<192>>))

SpiEndPair ==
    RawDev(TRUE,
           <<TextLine("HID_UNIQ", "s"), TextLine("HID_NAME", "Spi"),
             HidIdLine("BUS_SPI", 65537, 1)>>,
           <<>>, File(<<9, 5>>))

VirtualBus ==
    RawDev(TRUE,
           <<HidIdLine("BUS_VIRTUAL", 1, 1), TextLine("HID_NAME", "V"),
             TextLine("HID_UNIQ", "")>>,
           <<>>, File(<<9, 2, 161, 1>>))

NoHidId ==
    RawDev(TRUE,
           <<BadIdLine, TextLine("HID_NAME", "X"), TextLine("HID_UNIQ", "")>>,
           <<>>, File(<<9, 2, 161, 1>>))

NoSerial ==
    RawDev(TRUE,
           <<HidIdLine("BUS_USB", 2, 1), TextLine("HID_NAME", "Y")>>,
           <<>>, File(<<9, 2, 161, 1>>))

NoHidParent ==
    RawDev(FALSE, <<TextLine("DRIVER", "other")>>, <<>>, Unreadable)

RawDevs == {UsbKeyboard, UhidMouse, BluetoothUnreadable, I2cNoPairs, SpiEndPair,
            VirtualBus, NoHidId, NoSerial, NoHidParent}

\* udev_device_get_devnode of the i-th node
DevNode(i) == <<"/dev/hidraw", i - 1>>

\* utf8_to_wchar_t and copy_udev_string: the wide copy of a narrow string
utf8_to_wchar_t(utf8) == IF utf8 = NULL THEN <<NULL>> ELSE <<"L", utf8>>

\* parse_hid_vid_pid_from_uevent: the first HID_ID line that converts
RECURSIVE parse_hid_vid_pid_from_uevent(_)
parse_hid_vid_pid_from_uevent(uevent) ==
    IF uevent = <<>>
    THEN [ret |-> 0, bus_type |-> "", vendor_id |-> 0, product_id |-> 0,
          error |-> "Couldn't find/parse HID_ID"]
    ELSE LET line == Head(uevent)
         IN IF line.key = "HID_ID" /\ line.scanned = 3
            THEN [ret |-> 1, bus_type |-> line.bus, vendor_id |-> line.vendor % 65536,
                  product_id |-> line.product % 65536, error |-> NULL]
            ELSE parse_hid_vid_pid_from_uevent(Tail(uevent))

\* parse_uevent_info: every line is looked at; a later line overwrites
RECURSIVE ParseLines(_, _)
ParseLines(uevent, acc) ==
    IF uevent = <<>> THEN acc
    ELSE LET line == Head(uevent)
             acc1 == IF line.key = "HID_ID"
                     THEN IF line.scanned = 3
                          THEN [acc EXCEPT !.found_id = 1, !.bus_type = line.bus,
                                           !.vendor_id = line.vendor % 65536,
                                           !.product_id = line.product % 65536]
                          ELSE acc
                     ELSE IF line.key = "HID_NAME"
                     THEN [acc EXCEPT !.found_name = 1, !.product_name_utf8 = line.value]
                     ELSE IF line.key = "HID_UNIQ"
                     THEN [acc EXCEPT !.found_serial = 1, !.serial_number_utf8 = line.value]
                     ELSE acc
         IN ParseLines(Tail(uevent), acc1)

parse_uevent_info(uevent) ==
    LET acc == ParseLines(uevent,
                          [found_id |-> 0, found_name |-> 0, found_serial |-> 0,
                           bus_type |-> "", vendor_id |-> 0, product_id |-> 0,
                           serial_number_utf8 |-> NULL, product_name_utf8 |-> NULL])
    IN [ret |-> IF acc.found_id = 1 /\ acc.found_name = 1 /\ acc.found_serial = 1
                THEN 1 ELSE 0,
        bus_type |-> acc.bus_type, vendor_id |-> acc.vendor_id,
        product_id |-> acc.product_id,
        serial_number_utf8 |-> acc.serial_number_utf8,
        product_name_utf8 |-> acc.product_name_utf8]

\* get_hid_report_descriptor_from_sysfs
get_hid_report_descriptor_from_sysfs(raw_dev) ==
    IF ~raw_dev.report_descriptor.readable
    THEN [res |-> -1, value |-> <<>>, error |-> "open failed"]
    ELSE [res |-> Len(raw_dev.report_descriptor.value),
          value |-> raw_dev.report_descriptor.value, error |-> NULL]

\* (the copy made for an additional pair, without the bus type)
CopyWithoutBus(prev_dev, page, us) ==
    [prev_dev EXCEPT !.usage_page = page, !.usage = us,
                     !.bus_type = "HID_API_BUS_UNKNOWN"]

\* the record allocated for an additional pair
CopyRecord(prev_dev, page, us) ==
    [prev_dev EXCEPT !.usage_page = page, !.usage = us]

\* the while loop over the additional pairs
RECURSIVE AdditionalRecords(_, _, _, _, _)
AdditionalRecords(rpt, p, page, us, prev_dev) ==
    LET r == get_next_hid_usage(rpt, Len(rpt), p, page, us)
    IN IF r.ret # 0 THEN <<>>
       ELSE LET tmp == CopyRecord(prev_dev, r.usage_page, r.usage)
            IN <<tmp>> \o AdditionalRecords(rpt, r.pos, r.usage_page, r.usage, tmp)

\* create_device_info_for_device on a node of the table: the list built and
\* the text the call leaves in the global error, NULL when it leaves none
create_device_info(raw_dev, dev_path) ==
    LET none == [root |-> <<>>, error |-> NULL]
        info == parse_uevent_info(raw_dev.uevent)
    IN IF ~raw_dev.hid_dev THEN none
       ELSE IF info.ret = 0 THEN none
       ELSE IF info.bus_type \notin {"BUS_BLUETOOTH", "BUS_I2C", "BUS_USB", "BUS_SPI"}
       THEN none
       ELSE LET seeded == [path |-> dev_path,
                           vendor_id |-> info.vendor_id,
                           product_id |-> info.product_id,
                           serial_number |-> utf8_to_wchar_t(info.serial_number_utf8),
                           release_number |-> 0,
                           interface_number |-> -1,
                           manufacturer_string |-> utf8_to_wchar_t(NULL),
                           product_string |-> utf8_to_wchar_t(NULL),
                           usage_page |-> 0,
                           usage |-> 0,
                           bus_type |-> "HID_API_BUS_UNKNOWN"]
                usb_dev == raw_dev.usb_dev
                filled ==
                    IF info.bus_type = "BUS_USB"
                    THEN IF usb_dev = <<>>
                         THEN [seeded EXCEPT
                                 !.manufacturer_string = utf8_to_wchar_t(""),
                                 !.product_string = utf8_to_wchar_t(info.product_name_utf8)]
                         ELSE [seeded EXCEPT
                                 !.manufacturer_string = utf8_to_wchar_t(usb_dev[1].manufacturer),
                                 !.product_string = utf8_to_wchar_t(usb_dev[1].product),
                                 !.bus_type = "HID_API_BUS_USB",
                                 !.release_number = usb_dev[1].bcdDevice,
                                 !.interface_number = usb_dev[1].bInterfaceNumber]
                    ELSE [seeded EXCEPT
                            !.manufacturer_string = utf8_to_wchar_t(""),
                            !.product_string = utf8_to_wchar_t(info.product_name_utf8),
                            !.bus_type = IF info.bus_type = "BUS_BLUETOOTH"
                                         THEN "HID_API_BUS_BLUETOOTH"
                                         ELSE IF info.bus_type = "BUS_I2C"
                                         THEN "HID_API_BUS_I2C"
                                         ELSE "HID_API_BUS_SPI"]
                report_desc == get_hid_report_descriptor_from_sysfs(raw_dev)
            IN IF report_desc.res < 0
               THEN [root |-> <<filled>>, error |-> report_desc.error]
               ELSE LET first == get_next_hid_usage(report_desc.value, report_desc.res,
                                                    0, 0, 0)
                        cur_dev == IF first.ret = 0
                                   THEN [filled EXCEPT !.usage_page = first.usage_page,
                                                       !.usage = first.usage]
                                   ELSE filled
                    IN [root |-> <<cur_dev>> \o
                                 AdditionalRecords(report_desc.value, first.pos,
                                                   first.usage_page, first.usage, cur_dev),
                        error |-> NULL]

(***************************************************************************)
(* hid_enumerate over the table, one node of the udev list at a time.       *)
(***************************************************************************)
Tables == UNION {[1 .. k -> RawDevs] : k \in 0 .. MaxNodes}

Filters == {0, 1, 2}

InitEnum ==
    /\ HotplugInit
    /\ ParserIdle
    /\ sysfs \in Tables
    /\ enumeration = NoEnumeration
    /\ dev = NoDevice
    /\ open_fds = {}
    /\ callers = [c \in Callers |-> NotCalling]
    /\ received = {}
    /\ walk = NoWalk

\* hid_enumerate up to the loop: hid_init, then the udev context and the scan
EnumerateBegin(vendor_id, product_id, fail) ==
    /\ ~enumeration.running
    /\ mutex' \in pthread_mutex_init(mutex)
    /\ IF fail = "udev_new"
       THEN /\ last_global_error_str' = "Couldn't create udev context"
            /\ enumeration' = NoEnumeration
            /\ last' = Step("hid_enumerate",
                            [vendor_id |-> vendor_id, product_id |-> product_id],
                            fail, 0, <<>>, <<>>)
       ELSE /\ last_global_error_str' = NULL
            /\ enumeration' = [running |-> TRUE, vendor_id |-> vendor_id,
                               product_id |-> product_id, dev_list_entry |-> 1,
                               root |-> <<>>]
            /\ last' = Step("scan", [vendor_id |-> vendor_id, product_id |-> product_id],
                            fail, 0, 0, <<>>)
    /\ UNCHANGED <<hotVars, parseVars, sysfs, dev, open_fds, callers, received, walk>>

\* (a pre-filter that looks at the vendor only)
SkipsOnVendorOnly(vendor_id, product_id, id) ==
    /\ vendor_id # 0 \/ product_id # 0
    /\ \/ id.ret = 0
       \/ vendor_id # 0 /\ vendor_id # id.vendor_id

\* the pre-filter: with a filter set, a node whose identity cannot be parsed
\* or differs is passed over
SkipsNode(vendor_id, product_id, id) ==
    /\ vendor_id # 0 \/ product_id # 0
    /\ \/ id.ret = 0
       \/ vendor_id # 0 /\ vendor_id # id.vendor_id
       \/ product_id # 0 /\ product_id # id.product_id

\* one turn of the loop over the udev list
EnumerateNode ==
    /\ enumeration.running
    /\ enumeration.dev_list_entry <= Len(sysfs)
    /\ LET i == enumeration.dev_list_entry
           raw_dev == sysfs[i]
           filtering == enumeration.vendor_id # 0 \/ enumeration.product_id # 0
           id == parse_hid_vid_pid_from_uevent(raw_dev.uevent)
           skip == SkipsNode(enumeration.vendor_id, enumeration.product_id, id)
           tmp == IF skip THEN [root |-> <<>>, error |-> NULL]
                  ELSE create_device_info(raw_dev, DevNode(i))
           error1 == IF filtering /\ id.ret = 0 THEN id.error ELSE last_global_error_str
       IN /\ last_global_error_str' = IF tmp.error # NULL THEN tmp.error ELSE error1
          /\ enumeration' = [enumeration EXCEPT !.dev_list_entry = i + 1,
                                                !.root = @ \o tmp.root]
          /\ last' = Step("node", [index |-> i, built |-> ~skip], "none", 0, tmp.root, <<>>)
    /\ UNCHANGED <<hotVars, mutex, parseVars, sysfs, dev, open_fds, callers, received, walk>>

\* after the loop: the text for an empty list, and the return
EnumerateEnd ==
    /\ enumeration.running
    /\ enumeration.dev_list_entry > Len(sysfs)
    /\ last_global_error_str' =
          IF enumeration.root # <<>> THEN last_global_error_str
          ELSE IF enumeration.vendor_id = 0 /\ enumeration.product_id = 0
          THEN ERR_NO_DEVICES
          ELSE ERR_NO_MATCH
    /\ last' = Step("hid_enumerate",
                    [vendor_id |-> enumeration.vendor_id,
                     product_id |-> enumeration.product_id],
                    "none", 0, enumeration.root, <<>>)
    /\ enumeration' = NoEnumeration
    /\ UNCHANGED <<hotVars, mutex, parseVars, sysfs, dev, open_fds, callers, received, walk>>

NextEnum ==
    \/ \E v \in Filters, p \in Filters, fail \in {"none", "udev_new"} :
          EnumerateBegin(v, p, fail)
    \/ EnumerateNode
    \/ EnumerateEnd

SpecEnum == InitEnum /\ [][NextEnum]_vars

(***************************************************************************)
(* One device: hid_open_path, the calls on the open device, hid_close.      *)
(***************************************************************************)
InitDev ==
    /\ HotplugInit
    /\ ParserIdle
    /\ sysfs \in {<<UsbKeyboard>>, <<BluetoothUnreadable>>, <<NoSerial>>}
    /\ enumeration = NoEnumeration
    /\ dev = NoDevice
    /\ open_fds = {}
    /\ callers = [c \in Callers |-> NotCalling]
    /\ received = {}
    /\ walk = NoWalk

\* the process was not aborted
Running == last.op = "hid_open_path" => last.result # "abort"

\* the descriptor open() returns
OpenedFd == 3

\* new_hid_device
new_hid_device ==
    [alloc |-> "live", node |-> 0, device_handle |-> -1, blocking |-> 1,
     last_error_str |-> NULL, device_info |-> <<>>]

\* hid_close of a live device: the descriptor is closed, the error text and
\* the cached records are freed, the record is freed
hid_close(d) ==
    [d EXCEPT !.alloc = "freed", !.last_error_str = NULL, !.device_info = <<>>]

\* hid_open_path.  When the ioctl fails the record is closed and freed and
\* then register_device_error_format frees and stores through the freed
\* record: the store lands in the freed memory and NULL is returned, or the
\* allocator aborts the process.
HidOpenPath(node, fail, ub) ==
    /\ Running
    /\ dev.alloc # "live"
    /\ fail = "ioctl" \/ ub = "store"
    /\ mutex' \in pthread_mutex_init(mutex)
    /\ IF fail = "calloc"
       THEN /\ last_global_error_str' = "Couldn't allocate memory"
            /\ last' = Step("hid_open_path", [node |-> node], fail, 0, NULL, <<>>)
            /\ UNCHANGED <<dev, open_fds>>
       ELSE IF fail = "open"
       THEN /\ dev' = [new_hid_device EXCEPT !.alloc = "freed"]
            /\ last_global_error_str' = "Failed to open a device"
            /\ last' = Step("hid_open_path", [node |-> node], fail, 0, NULL, <<>>)
            /\ UNCHANGED open_fds
       ELSE IF fail = "ioctl"
       THEN /\ dev' = [hid_close([new_hid_device EXCEPT !.node = node,
                                                       !.device_handle = OpenedFd])
                         EXCEPT !.last_error_str = "ioctl(GRDESCSIZE) error"]
            /\ open_fds' = open_fds \ {OpenedFd}
            /\ last_global_error_str' = NULL
            /\ last' = Step("hid_open_path", [node |-> node], fail, 0,
                            IF ub = "store" THEN NULL ELSE "abort", <<>>)
       ELSE /\ dev' = [new_hid_device EXCEPT !.node = node, !.device_handle = OpenedFd]
            /\ open_fds' = open_fds \cup {OpenedFd}
            /\ last_global_error_str' = NULL
            /\ last' = Step("hid_open_path", [node |-> node], fail, 0, "dev", <<>>)
    /\ UNCHANGED <<hotVars, parseVars, sysfs, enumeration, callers, received, walk>>

HidClose ==
    /\ Running
    /\ dev.alloc = "live"
    /\ dev' = hid_close(dev)
    /\ open_fds' = open_fds \ {dev.device_handle}
    /\ last' = Step("hid_close", NoArgs, "none", 0, 0, <<>>)
    /\ UNCHANGED <<hotVars, libVars, parseVars, sysfs, enumeration, callers, received, walk>>

\* a call on the open device: its error text, its other fields, its result
DeviceCall(op, args, fail, d, result) ==
    /\ dev' = d
    /\ last' = Step(op, args, fail, 0, result, <<>>)
    /\ UNCHANGED <<hotVars, libVars, parseVars, sysfs, enumeration, open_fds, callers, received, walk>>

\* hid_write: valid says that data is not NULL and length is not 0
HidWrite(valid, fail) ==
    /\ Running
    /\ dev.alloc = "live"
    /\ ~valid => fail = "none"
    /\ IF ~valid
       THEN DeviceCall("hid_write", [valid |-> valid], fail,
                       [dev EXCEPT !.last_error_str = "Invalid argument"], -1)
       ELSE IF fail = "write"
       THEN DeviceCall("hid_write", [valid |-> valid], fail,
                       [dev EXCEPT !.last_error_str = "write error"], -1)
       ELSE DeviceCall("hid_write", [valid |-> valid], fail,
                       [dev EXCEPT !.last_error_str = NULL], 1)

\* hid_read_timeout on the device record d: polled is what poll() reports
\* ("timeout", "error", "hup" for POLLERR, POLLHUP or POLLNVAL in revents,
\* "ready"), got is what read() does ("data", "eagain", "einprogress",
\* "error").  The value holds the record, the result and the system calls
\* made on the descriptor.
ReadWithoutPollAtZero(d, milliseconds, polled, got) ==
    LET cleared == [d EXCEPT !.last_error_str = NULL]
    IN IF milliseconds > 0 /\ polled = "timeout"
       THEN [dev |-> cleared, result |-> 0, calls |-> <<"poll">>]
       ELSE [dev |-> cleared, result |-> IF got = "data" THEN 1 ELSE 0,
             calls |-> IF milliseconds > 0 THEN <<"poll", "read">> ELSE <<"read">>]

hid_read_timeout(d, milliseconds, polled, got) ==
    LET cleared == [d EXCEPT !.last_error_str = NULL]
        bytes_read ==
            IF got = "data"
            THEN [dev |-> cleared, result |-> 1]
            ELSE IF got \in {"eagain", "einprogress"}
            THEN [dev |-> cleared, result |-> 0]
            ELSE [dev |-> [cleared EXCEPT !.last_error_str = "read error"],
                  result |-> -1]
    IN IF milliseconds >= 0
       THEN IF polled = "timeout"
            THEN [dev |-> cleared, result |-> 0, calls |-> <<"poll">>]
            ELSE IF polled = "error"
            THEN [dev |-> [cleared EXCEPT !.last_error_str = "poll error"],
                  result |-> -1, calls |-> <<"poll">>]
            ELSE IF polled = "hup"
            THEN [dev |-> [cleared EXCEPT !.last_error_str =
                     "hid_read_timeout: unexpected poll error (device disconnected)"],
                  result |-> -1, calls |-> <<"poll">>]
            ELSE [dev |-> bytes_read.dev, result |-> bytes_read.result,
                  calls |-> <<"poll", "read">>]
       ELSE [dev |-> bytes_read.dev, result |-> bytes_read.result,
             calls |-> <<"read">>]

HidReadTimeout(milliseconds, polled, got) ==
    /\ Running
    /\ dev.alloc = "live"
    /\ milliseconds < 0 => polled = "ready"
    /\ polled # "ready" => got = "data"
    /\ LET r == hid_read_timeout(dev, milliseconds, polled, got)
       IN /\ dev' = r.dev
          /\ last' = Step("hid_read_timeout",
                          [milliseconds |-> milliseconds, polled |-> polled, got |-> got],
                          IF r.result < 0 THEN "io" ELSE "none", 0, r.result, r.calls)
    /\ UNCHANGED <<hotVars, libVars, parseVars, sysfs, enumeration, open_fds, callers, received, walk>>

\* hid_read: hid_read_timeout that blocks when dev->blocking is set
HidRead(polled, got) ==
    /\ Running
    /\ dev.alloc = "live"
    /\ dev.blocking # 0 => polled = "ready"
    /\ polled # "ready" => got = "data"
    /\ LET milliseconds == IF dev.blocking # 0 THEN -1 ELSE 0
           r == hid_read_timeout(dev, milliseconds, polled, got)
       IN /\ dev' = r.dev
          /\ last' = Step("hid_read",
                          [milliseconds |-> milliseconds, polled |-> polled, got |-> got],
                          IF r.result < 0 THEN "io" ELSE "none", 0, r.result, r.calls)
    /\ UNCHANGED <<hotVars, libVars, parseVars, sysfs, enumeration, open_fds, callers, received, walk>>

\* hid_set_nonblocking: the flag is stored, nothing else
HidSetNonblocking(nonblock) ==
    /\ Running
    /\ dev.alloc = "live"
    /\ DeviceCall("hid_set_nonblocking", [nonblock |-> nonblock], "none",
                  [dev EXCEPT !.blocking = IF nonblock = 0 THEN 1 ELSE 0], 0)

\* hid_get_indexed_string: not supported
HidGetIndexedString ==
    /\ Running
    /\ dev.alloc = "live"
    /\ DeviceCall("hid_get_indexed_string", NoArgs, "none",
                  [dev EXCEPT !.last_error_str =
                      "hid_get_indexed_string: not supported by hidraw"], -1)

\* hid_get_report_descriptor: an error text is stored when one of the two
\* ioctls fails, nothing is stored when both succeed; at most buf_size bytes
\* are copied
HidGetReportDescriptor(buf_size, fail) ==
    /\ Running
    /\ dev.alloc = "live"
    /\ IF fail = "GRDESCSIZE"
       THEN DeviceCall("hid_get_report_descriptor", [buf_size |-> buf_size], fail,
                       [dev EXCEPT !.last_error_str = "ioctl(GRDESCSIZE)"], -1)
       ELSE IF fail = "GRDESC"
       THEN DeviceCall("hid_get_report_descriptor", [buf_size |-> buf_size], fail,
                       [dev EXCEPT !.last_error_str = "ioctl(GRDESC)"], -1)
       ELSE LET size == Len(sysfs[dev.node].report_descriptor.value)
            IN DeviceCall("hid_get_report_descriptor", [buf_size |-> buf_size], fail, dev,
                          IF size < buf_size THEN size ELSE buf_size)

\* create_device_info_for_hid_device on the record d; built is what
\* create_device_info_for_device gives for the node d was opened from.  The
\* value holds the records (<<>> for NULL), the record d with its error text
\* and the global error text the builder leaves (global when it leaves none).
create_device_info_for_hid_device(d, built, global, fail) ==
    LET cleared == [d EXCEPT !.last_error_str = NULL]
    IN IF fail = "fstat"
       THEN [root |-> <<>>, global |-> global,
             dev |-> [cleared EXCEPT !.last_error_str = "Failed to stat device handle"]]
       ELSE IF fail = "udev_new"
       THEN [root |-> <<>>, global |-> global,
             dev |-> [cleared EXCEPT !.last_error_str = "Couldn't create udev context"]]
       ELSE LET made == IF fail = "devnum"
                        THEN [root |-> <<>>, error |-> NULL]
                        ELSE built
            IN [root |-> made.root,
                global |-> IF made.error # NULL THEN made.error ELSE global,
                dev |-> IF made.root = <<>>
                        THEN [cleared EXCEPT !.last_error_str =
                                 "Couldn't create hid_device_info"]
                        ELSE cleared]

\* hid_get_device_info that builds on every call
InfoWithoutCache(d, built, global, fail) ==
    LET made == create_device_info_for_hid_device(d, built, global, fail)
    IN [dev |-> [made.dev EXCEPT !.device_info = made.root], global |-> made.global,
        calls |-> <<"create_device_info_for_hid_device">>]

\* hid_get_device_info: the cached records, or the records
\* create_device_info_for_hid_device builds, which are then cached
hid_get_device_info(d, built, global, fail) ==
    IF d.device_info = <<>>
    THEN LET made == create_device_info_for_hid_device(d, built, global, fail)
         IN [dev |-> [made.dev EXCEPT !.device_info = made.root], global |-> made.global,
             calls |-> <<"create_device_info_for_hid_device">>]
    ELSE [dev |-> d, global |-> global, calls |-> <<>>]

\* fail is what would go wrong if the records were built now: fstat or
\* udev_new failing, or the node being gone ("devnum")
HidGetDeviceInfo(fail) ==
    /\ Running
    /\ dev.alloc = "live"
    /\ \E built \in {create_device_info(sysfs[dev.node], DevNode(dev.node))} :
       \E r \in {hid_get_device_info(dev, built, last_global_error_str, fail)} :
          /\ dev' = r.dev
          /\ last_global_error_str' = r.global
          /\ last' = Step("hid_get_device_info", [cached |-> dev.device_info # <<>>],
                          fail, 0, IF r.dev.device_info = <<>> THEN 0 ELSE 1, r.calls)
    /\ UNCHANGED <<hotVars, mutex, parseVars, sysfs, enumeration, open_fds, callers, received, walk>>

NextDev ==
    \/ \E fail \in {"none", "calloc", "open", "ioctl"}, ub \in {"store", "abort"} :
          HidOpenPath(1, fail, ub)
    \/ HidClose
    \/ \E valid \in BOOLEAN, fail \in {"none", "write"} : HidWrite(valid, fail)
    \/ \E milliseconds \in {-1, 0, 5}, polled \in {"timeout", "error", "hup", "ready"},
          got \in {"data", "eagain", "einprogress", "error"} :
          HidReadTimeout(milliseconds, polled, got)
    \/ \E polled \in {"timeout", "ready"}, got \in {"data", "error"} : HidRead(polled, got)
    \/ \E nonblock \in {0, 1} : HidSetNonblocking(nonblock)
    \/ HidGetIndexedString
    \/ \E buf_size \in {0, 4096}, fail \in {"none", "GRDESCSIZE", "GRDESC"} :
          HidGetReportDescriptor(buf_size, fail)
    \/ \E fail \in {"none", "fstat", "udev_new", "devnum"} : HidGetDeviceInfo(fail)

SpecDev == InitDev /\ [][NextDev]_vars

(***************************************************************************)
(* Properties.                                                             *)
(***************************************************************************)
LiveThreads == {t \in DOMAIN threads : threads[t] # "exited"}

\* a registration whose parameters the interface accepts
AcceptableCall(a) ==
    /\ a.events \in {1, 2, 3}
    /\ a.flags \in {0, 1}
    /\ a.callback # NULL

\* the step just taken is a registration that met no failure
RegisteredOk ==
    /\ last.op = "register"
    /\ AcceptableCall(last.args)
    /\ last.fail = "none"

\* C1: a registration with valid arguments that meets no allocation or udev
\* failure returns 0 and hands back a positive handle.
C1_RegisterReturnsSuccess ==
    RegisteredOk => (last.result = 0 /\ last.issued > 0)

\* C2: once a deregistration has removed the last callback the monitor fd is
\* invalid (< 0), so that the worker leaves its loop.
C2_MonitorInvalidAfterLastDeregister ==
    (last.op = "deregister" /\ last.result = 0 /\ hotplug_cbs = <<>>) => monitor_fd < 0

\* C3: a callback that returned non-zero is no longer in the list and is not
\* invoked again: not for a later record of the same event, not in a later event.
C3_RetiredNeverInvoked ==
    /\ [](\A i \in DOMAIN hotplug_cbs : hotplug_cbs[i].id \notin retired)
    /\ [][\A i \in DOMAIN last'.calls :
            /\ last'.calls[i].id \notin retired
            /\ \A j \in 1 .. (i - 1) :
                  last'.calls[j].id = last'.calls[i].id => last'.calls[j].result = 0]_vars

\* C3 witness: in one event a callback returned non-zero on the first record and
\* a later record of that event was dispatched to the callback that stayed.
C3_Witness ==
    /\ last.op = "event"
    /\ \E i, j \in DOMAIN last.calls :
          /\ i < j
          /\ last.calls[i].result # 0
          /\ last.calls[j].usage # last.calls[i].usage

\* C4: every LEFT invocation delivers a path that an earlier ARRIVED invocation
\* delivered to the same callback.
C4_LeftAfterArrived ==
    \A i \in DOMAIN last.calls :
        last.calls[i].event = HID_API_HOTPLUG_EVENT_DEVICE_LEFT
            => <<last.calls[i].id, last.calls[i].path>> \in arrived

\* the records of devs a registration's filter matches
MatchingDevs(a) ==
    {i \in DOMAIN devs :
        /\ (a.vendor_id = 0 \/ devs[i].vendor_id = a.vendor_id)
        /\ (a.product_id = 0 \/ devs[i].product_id = a.product_id)}

\* C5: a registration with ENUMERATE invokes the new callback with ARRIVED once
\* for every record of devs its filter matches.
C5_EnumerateSynthesizesArrived ==
    (RegisteredOk /\ last.args.flags = HID_API_HOTPLUG_ENUMERATE)
        => /\ Len(last.calls) = Cardinality(MatchingDevs(last.args))
           /\ \A i \in DOMAIN last.calls :
                 /\ last.calls[i].event = HID_API_HOTPLUG_EVENT_DEVICE_ARRIVED
                 /\ last.calls[i].handle = last.issued

\* C6: callbacks registered, monitor fd valid and worker running are all true
\* or all false.
C6_ArmedOrIdle ==
    /\ (hotplug_cbs # <<>>) <=> (monitor_fd >= 0)
    /\ (monitor_fd >= 0) <=> (LiveThreads # {})

\* C7: at most one worker thread is alive.
C7_OneWorker == Cardinality(LiveThreads) <= 1

C9_RejectedLeavesContext ==
    [][(last'.op = "register" /\ ~AcceptableCall(last'.args)) =>
        /\ last'.result = -1
        /\ UNCHANGED <<hotplug_cbs, next_handle, callback_handle, monitor_fd, mon,
                       devs, threads, queue, nreg>>]_vars

\* C9 witness: a registration with a flag bit outside ENUMERATE was rejected
\* while callbacks were registered.
C9_Witness ==
    /\ last.op = "register"
    /\ last.args.flags = 2
    /\ last.result = -1
    /\ hotplug_cbs # <<>>

\* C10: every handle issued is positive; the next one issued is one more, and
\* after the largest value of the type the next one issued is 1.
C10_HandlesIncreaseAndWrap ==
    /\ [](\A i \in DOMAIN hotplug_cbs : hotplug_cbs[i].handle > 0)
    /\ [][(last'.op = "register" /\ nreg' = nreg + 1) =>
            /\ last'.issued = next_handle
            /\ last'.issued \in 1 .. HandleMax
            /\ next_handle' = (IF last'.issued = HandleMax THEN 1 ELSE last'.issued + 1)
            /\ last'.args.out => callback_handle' = last'.issued]_vars

\* C10 witness: the handle after the largest one has been issued, and it is 1.
C10_Witness ==
    /\ last.op = "register"
    /\ last.issued = 1
    /\ nreg > HandleMax

\* C11: hid_exit called while callbacks are registered leaves the callback
\* list and the device list empty, and the worker stops: when it next
\* evaluates its loop condition after hid_exit returned, it leaves the loop.
C11_ExitStopsWorker ==
    /\ [](last.op = "hid_exit" => hotplug_cbs = <<>> /\ devs = <<>>)
    /\ [][\A t \in DOMAIN threads :
            (mutex = "destroyed" /\ hotplug_cbs = <<>> /\ threads[t] = "loop"
             /\ t \in DOMAIN threads' /\ threads'[t] # "loop")
            => threads'[t] = "exited"]_vars

\* C12: a hid_init made while callbacks are registered, by the program or
\* by hid_enumerate, leaves the hotplug context unchanged, the state of its
\* mutex included.
C12_InitIdempotent ==
    [][(last'.op \in {"hid_init", "enumerate"} /\ hotplug_cbs # <<>>)
       => UNCHANGED <<hotplug_cbs, next_handle, monitor_fd, mon, devs, mutex>>]_vars

(***************************************************************************)
(* The items of a descriptor, read off the HID item format: a key whose    *)
(* high nibble is F starts a long item (key, length, tag, data), any other *)
(* key a short item with 0, 1, 2 or 4 data bytes.                          *)
(***************************************************************************)
IsLongKey(key) == key \div 16 = 15

ShortDataLen(key) == IF key % 4 = 3 THEN 4 ELSE key % 4

\* the number of bytes of the item at index i, 0 when its length byte is missing
ItemLength(rpt, i) ==
    IF IsLongKey(rpt[i])
    THEN IF i + 1 > Len(rpt) THEN 0 ELSE 3 + rpt[i + 1]
    ELSE 1 + ShortDataLen(rpt[i])

RECURSIVE LittleEndian16(_)
LittleEndian16(data) ==
    IF data = <<>> THEN 0 ELSE (Head(data) + 256 * LittleEndian16(Tail(data))) % 65536

RECURSIVE ItemsFrom(_, _)
ItemsFrom(rpt, i) ==
    IF i > Len(rpt) THEN <<>>
    ELSE LET n == ItemLength(rpt, i)
         IN IF n = 0 \/ i + n - 1 > Len(rpt)
            THEN <<[kind |-> "truncated", tag |-> 0, value |-> 0]>>
            ELSE IF IsLongKey(rpt[i])
            THEN <<[kind |-> "long", tag |-> 0, value |-> 0]>> \o ItemsFrom(rpt, i + n)
            ELSE <<[kind |-> "short", tag |-> rpt[i] - (rpt[i] % 4),
                    value |-> LittleEndian16(SubSeq(rpt, i + 1, i + n - 1))]>>
                 \o ItemsFrom(rpt, i + n)

Items(rpt) == ItemsFrom(rpt, 1)

\* every item lies inside the descriptor
WellFormed(rpt) == \A k \in DOMAIN Items(rpt) : Items(rpt)[k].kind # "truncated"

MainTags == {128, 144, 160, 176, 192}

\* the pairs of the Collection items with a Usage pending, in order, with
\* the page, the usage and whether a Usage is pending after the last item
RECURSIVE CollectionWalk(_, _, _, _, _)
CollectionWalk(items, k, page, pending, us) ==
    IF k > Len(items) THEN [pairs |-> <<>>, page |-> page, pending |-> pending, us |-> us]
    ELSE LET item == items[k]
         IN IF item.tag = 4 THEN CollectionWalk(items, k + 1, item.value, pending, us)
            ELSE IF item.tag = 8 THEN CollectionWalk(items, k + 1, page, TRUE, item.value)
            ELSE IF item.tag = 160
            THEN LET rest == CollectionWalk(items, k + 1, page, FALSE, us)
                 IN [rest EXCEPT !.pairs = (IF pending THEN <<<<page, us>>>> ELSE <<>>) \o @]
            ELSE IF item.tag \in MainTags THEN CollectionWalk(items, k + 1, page, FALSE, us)
            ELSE CollectionWalk(items, k + 1, page, pending, us)

CollectionPairs(rpt) == CollectionWalk(Items(rpt), 1, 0, FALSE, 0).pairs

\* the same, and the pair pending at the end when no Collection gave one
PairsWithEndPair(rpt) ==
    LET w == CollectionWalk(Items(rpt), 1, 0, FALSE, 0)
    IN IF w.pairs = <<>> /\ w.pending THEN <<<<w.page, w.us>>>> ELSE w.pairs

IsPrefix(a, b) == Len(a) <= Len(b) /\ a = SubSeq(b, 1, Len(a))

WalkDone == last.op = "get_next_hid_usage" /\ last.result # 0

\* C16: a walk from pos = 0 over a well-formed descriptor returns, in
\* order, exactly one pair (current Usage Page, last Usage) for each
\* Collection item that has a Usage pending, and nothing else.
C16_OnePairPerCollection ==
    WellFormed(report_descriptor) =>
        /\ IsPrefix(pairs, CollectionPairs(report_descriptor))
        /\ WalkDone => pairs = CollectionPairs(report_descriptor)

\* C16, amended: a walk from pos = 0 over a well-formed descriptor returns,
\* in order, exactly one pair (current Usage Page, last Usage) for each
\* Collection item that has a Usage pending and, when no Collection gave a
\* pair and a Usage is pending at the end of the descriptor, that one pair.
C16_PairsOfWalk ==
    WellFormed(report_descriptor) =>
        /\ IsPrefix(pairs, PairsWithEndPair(report_descriptor))
        /\ WalkDone => pairs = PairsWithEndPair(report_descriptor)

C16_Witness ==
    /\ WalkDone
    /\ WellFormed(report_descriptor)
    /\ Len(pairs) = 2
    /\ pairs[1] # pairs[2]
    /\ pairs = CollectionPairs(report_descriptor)

\* a descriptor whose last byte is the key of a long item at an item boundary
EndsWithLongKey(rpt) ==
    /\ rpt # <<>>
    /\ IsLongKey(rpt[Len(rpt)])
    /\ WellFormed(SubSeq(rpt, 1, Len(rpt) - 1))

\* C17: over a descriptor that ends with the key of a long item, the call
\* that reaches that item returns -1 and no pair: every call returns either
\* a pair taken at a Collection before that item, or -1.
C17_TruncatedLongItemMalformed ==
    (EndsWithLongKey(report_descriptor) /\ last.op = "get_next_hid_usage") =>
        IF last.result = 0 THEN pos < Len(report_descriptor) ELSE last.result = -1

(***************************************************************************)
(* Enumeration and the builder.                                            *)
(***************************************************************************)
EnumerateReturned == last.op = "hid_enumerate" /\ last.fail = "none"

\* the records hid_enumerate(v, p) owes for the i-th node: those the
\* builder makes of it, when it makes any and their identity passes the filter
OwedFor(i, v, p) ==
    LET recs == create_device_info(sysfs[i], DevNode(i)).root
    IN IF /\ recs # <<>>
          /\ v = 0 \/ recs[1].vendor_id = v
          /\ p = 0 \/ recs[1].product_id = p
       THEN recs ELSE <<>>

RECURSIVE OwedFrom(_, _, _)
OwedFrom(i, v, p) ==
    IF i > Len(sysfs) THEN <<>> ELSE OwedFor(i, v, p) \o OwedFrom(i + 1, v, p)

\* C13: hid_enumerate(v, p) returns exactly the records of the buildable
\* nodes whose identity satisfies (v = 0 or vendor = v) and (p = 0 or
\* product = p): no returned record violates the filter and no matching
\* buildable node is left out.
C13_EnumerateFilters ==
    EnumerateReturned =>
        /\ last.result = OwedFrom(1, last.args.vendor_id, last.args.product_id)
        /\ \A k \in DOMAIN last.result :
              /\ last.args.vendor_id = 0 \/ last.result[k].vendor_id = last.args.vendor_id
              /\ last.args.product_id = 0 \/ last.result[k].product_id = last.args.product_id

C13_Witness ==
    /\ EnumerateReturned
    /\ last.args.vendor_id # 0
    /\ last.args.product_id # 0
    /\ last.result # <<>>
    /\ Len(last.result) < Len(OwedFrom(1, 0, 0))
    /\ Len(last.result) < Len(OwedFrom(1, last.args.vendor_id, 0))

\* the pairs a descriptor yields: the parser driven from pos = 0 until its
\* result is not 0
RECURSIVE DrivenPairs(_, _, _, _)
DrivenPairs(rpt, p, page, us) ==
    LET r == get_next_hid_usage(rpt, Len(rpt), p, page, us)
    IN IF r.ret # 0 THEN <<>>
       ELSE <<<<r.usage_page, r.usage>>>> \o DrivenPairs(rpt, r.pos, r.usage_page, r.usage)

YieldedPairs(raw_dev) ==
    IF raw_dev.report_descriptor.readable
    THEN DrivenPairs(raw_dev.report_descriptor.value, 0, 0, 0)
    ELSE <<>>

SameNode(a, b) ==
    /\ a.path = b.path
    /\ a.vendor_id = b.vendor_id
    /\ a.product_id = b.product_id
    /\ a.serial_number = b.serial_number
    /\ a.release_number = b.release_number
    /\ a.interface_number = b.interface_number
    /\ a.manufacturer_string = b.manufacturer_string
    /\ a.product_string = b.product_string
    /\ a.bus_type = b.bus_type

NodeBuilt == last.op = "node" /\ last.args.built /\ last.result # <<>>

BusOf(raw_dev) ==
    LET ids == {k \in DOMAIN raw_dev.uevent :
                   raw_dev.uevent[k].key = "HID_ID" /\ raw_dev.uevent[k].scanned = 3}
    IN IF ids = {} THEN "" ELSE raw_dev.uevent[CHOOSE k \in ids : TRUE].bus

ApiBus(bus) ==
    IF bus = "BUS_USB" THEN "HID_API_BUS_USB"
    ELSE IF bus = "BUS_BLUETOOTH" THEN "HID_API_BUS_BLUETOOTH"
    ELSE IF bus = "BUS_I2C" THEN "HID_API_BUS_I2C"
    ELSE IF bus = "BUS_SPI" THEN "HID_API_BUS_SPI"
    ELSE "HID_API_BUS_UNKNOWN"

\* C15: every record the builder returns has a bus type among USB,
\* BLUETOOTH, I2C and SPI, the one of the kernel bus in the node's identity
\* line, a USB node without usb_device ancestor included; a node on any
\* other bus yields no record.
C15_BusTypeOfRecord ==
    (last.op = "node" /\ last.args.built) =>
        LET bus == BusOf(sysfs[last.args.index])
        IN /\ \A i \in DOMAIN last.result :
                 /\ last.result[i].bus_type \in
                       {"HID_API_BUS_USB", "HID_API_BUS_BLUETOOTH", "HID_API_BUS_I2C",
                        "HID_API_BUS_SPI"}
                 /\ last.result[i].bus_type = ApiBus(bus)
           /\ bus \notin {"BUS_USB", "BUS_BLUETOOTH", "BUS_I2C", "BUS_SPI"}
                 => last.result = <<>>

\* C18: when hid_enumerate returns a list that is not empty the global
\* error is "no error", whatever happened to single nodes; when it returns
\* an empty list the global error is the text for "nothing found", the one
\* without or the one with a filter.
C18_NoErrorForSingleNode ==
    EnumerateReturned =>
        IF last.result # <<>> THEN last_global_error_str = NULL
        ELSE last_global_error_str =
                IF last.args.vendor_id = 0 /\ last.args.product_id = 0
                THEN ERR_NO_DEVICES ELSE ERR_NO_MATCH

(***************************************************************************)
(* The device calls.                                                       *)
(***************************************************************************)
\* the call just made is one of the five, and it returned success
DeviceCallSucceeded ==
    \/ last.op \in {"hid_get_report_descriptor", "hid_set_nonblocking", "hid_write",
                    "hid_read_timeout"} /\ last.result >= 0
    \/ last.op = "hid_get_device_info" /\ last.args.cached /\ last.result = 1

\* hid_error(dev): the text, "Success" when none is stored
hid_error(d) == IF d.last_error_str = NULL THEN "Success" ELSE d.last_error_str

\* C19: after hid_get_report_descriptor, hid_set_nonblocking,
\* hid_get_device_info on a cached record, hid_write or hid_read_timeout
\* returned success, hid_error(dev) is "Success", whatever error an earlier
\* call left.
C19_SuccessClearsError ==
    DeviceCallSucceeded => hid_error(dev) = "Success"

\* C20: when hid_open_path returns NULL the descriptor it opened is closed,
\* the freed device record has not been written after the free, and the
\* global error holds a text.
C20_FailedOpenIsClean ==
    (last.op = "hid_open_path" /\ last.result = NULL) =>
        /\ OpenedFd \notin open_fds
        /\ ~(dev.alloc = "freed" /\ dev.last_error_str # NULL)
        /\ last_global_error_str # NULL

\* C21: hid_read_timeout with milliseconds >= 0 polls first: a poll timeout
\* returns 0 with no read and no error text, a poll error returns -1 with an
\* error text, an error bit in revents returns -1 with the "device
\* disconnected" text and no read, a read failing with EAGAIN or EINPROGRESS
\* returns 0 with no error text; with milliseconds < 0 poll is not called.
C21_PollBeforeRead ==
    last.op = "hid_read_timeout" =>
        /\ last.args.milliseconds >= 0 =>
              /\ last.calls[1] = "poll"
              /\ last.args.polled = "timeout" =>
                    last.result = 0 /\ last.calls = <<"poll">> /\ dev.last_error_str = NULL
              /\ last.args.polled = "error" =>
                    last.result = -1 /\ dev.last_error_str # NULL
              /\ last.args.polled = "hup" =>
                    /\ last.result = -1
                    /\ last.calls = <<"poll">>
                    /\ dev.last_error_str =
                          "hid_read_timeout: unexpected poll error (device disconnected)"
        /\ last.args.milliseconds < 0 => last.calls = <<"read">>
        /\ (last.calls[Len(last.calls)] = "read"
               /\ last.args.got \in {"eagain", "einprogress"}) =>
              last.result = 0 /\ dev.last_error_str = NULL

C21_Witness ==
    /\ last.op = "hid_read_timeout"
    /\ last.args.milliseconds = 0
    /\ last.args.polled = "ready"
    /\ last.args.got = "einprogress"
    /\ last.calls = <<"poll", "read">>

\* C22: once hid_get_device_info has built a non-null record for the open
\* device, every later call returns that record and does not run the builder,
\* whatever building would give now, and no call other than hid_close
\* changes the cached record.
C22_DeviceInfoCached ==
    [][(dev.alloc = "live" /\ dev.device_info # <<>>) =>
          /\ last'.op = "hid_get_device_info" =>
                /\ dev'.device_info = dev.device_info
                /\ last'.result = 1
                /\ last'.calls = <<>>
          /\ last'.op # "hid_close" => dev'.device_info = dev.device_info
          /\ last'.op = "hid_close" => dev'.alloc = "freed" /\ dev'.device_info = <<>>]_vars

C22_Witness ==
    /\ last.op = "hid_get_device_info"
    /\ last.args.cached
    /\ last.fail = "devnum"
    /\ last.result = 1
    /\ Len(dev.device_info) = 2

(***************************************************************************)
(* Dispatch of one event by the worker.                                    *)
(***************************************************************************)
\* the callback asked for this event on this record
Wants(callback, info, event) ==
    /\ callback.events \in (IF event = HID_API_HOTPLUG_EVENT_DEVICE_ARRIVED
                            THEN {1, 3} ELSE {2, 3})
    /\ callback.vendor_id \in {0, info.vendor_id}
    /\ callback.product_id \in {0, info.product_id}

\* the callbacks of cbs an earlier record of the same event has retired
GoneBefore(cbs, infos, event, i) ==
    {cbs[k].id : k \in {n \in DOMAIN cbs :
        /\ cbs[n].callback = "once"
        /\ \E j \in 1 .. (i - 1) : Wants(cbs[n], infos[j], event)}}

\* what is owed for the records i.. of the event: for each record in turn,
\* each callback that wants it and is still registered, in registration order
RECURSIVE OwedCalls(_, _, _, _)
OwedCalls(cbs, infos, event, i) ==
    IF i > Len(infos) THEN <<>>
    ELSE LET Due(callback) == /\ Wants(callback, infos[i], event)
                              /\ callback.id \notin GoneBefore(cbs, infos, event, i)
             due == SelectSeq(cbs, Due)
         IN [k \in DOMAIN due |-> <<due[k].id, infos[i].path, infos[i].usage, event>>]
            \o OwedCalls(cbs, infos, event, i + 1)

MadeCalls(calls) ==
    [k \in DOMAIN calls |-> <<calls[k].id, calls[k].path, calls[k].usage, calls[k].event>>]

\* the records the worker dispatches for the event it handles
HasPath(info, path) == info.path = path
DispatchedRecords(raw_dev) ==
    IF raw_dev.action = "add"
    THEN create_device_info_for_device(raw_dev.node, connected)
    ELSE LET Leaves(info) == HasPath(info, NodePath(raw_dev.node))
         IN SelectSeq(devs, Leaves)

\* C23: for each record the worker dispatches with an event, exactly the
\* registered callbacks whose mask holds the event and whose filter matches
\* the record are invoked, once each, in registration order, also when an
\* earlier callback of the same dispatch returned non-zero and was unlinked.
C23_DispatchInOrder ==
    [][last'.op = "event" =>
          MadeCalls(last'.calls) =
              OwedCalls(hotplug_cbs, DispatchedRecords(last'.args),
                        IF last'.args.action = "add"
                        THEN HID_API_HOTPLUG_EVENT_DEVICE_ARRIVED
                        ELSE HID_API_HOTPLUG_EVENT_DEVICE_LEFT, 1)]_vars

\* a callback returned non-zero and the one registered after it was invoked
\* for the same record
C23_Witness ==
    /\ last.op = "event"
    /\ \E k \in DOMAIN last.calls :
          /\ k + 1 \in DOMAIN last.calls
          /\ last.calls[k].result # 0
          /\ last.calls[k + 1].usage = last.calls[k].usage
          /\ last.calls[k + 1].id > last.calls[k].id

\* the records of list that stay when the node of path is removed
StaysOn(list, path) ==
    LET Other(info) == ~HasPath(info, path)
    IN SelectSeq(list, Other)

\* the records callback id was invoked with, in order
SeenBy(calls, id) ==
    LET Mine(call) == call.id = id
        mine == SelectSeq(calls, Mine)
    IN [k \in DOMAIN mine |-> <<mine[k].path, mine[k].usage, mine[k].event>>]

\* C24: handling a remove event for devnode p takes every record with path p
\* out of devs and keeps the others in their order; every invocation it makes
\* is a LEFT for path p, and a callback that wants LEFT for the node and
\* stays registered is invoked once per removed record, in list order.
C24_RemoveDetachesAll ==
    [][(last'.op = "event" /\ last'.args.action = "remove") =>
          LET p == NodePath(last'.args.node)
              gone == DispatchedRecords(last'.args)
          IN /\ devs' = StaysOn(devs, p)
             /\ \A k \in DOMAIN last'.calls :
                   /\ last'.calls[k].event = HID_API_HOTPLUG_EVENT_DEVICE_LEFT
                   /\ last'.calls[k].path = p
             /\ \A n \in DOMAIN hotplug_cbs' :
                   (gone # <<>> /\ Wants(hotplug_cbs'[n], gone[1],
                                         HID_API_HOTPLUG_EVENT_DEVICE_LEFT)) =>
                      SeenBy(last'.calls, hotplug_cbs'[n].id) =
                          [k \in DOMAIN gone |->
                              <<p, gone[k].usage, HID_API_HOTPLUG_EVENT_DEVICE_LEFT>>]]_vars

\* both records of the first node were removed with a LEFT each and the
\* record of the other node stayed
C24_Witness ==
    /\ last.op = "event"
    /\ last.args.action = "remove"
    /\ last.args.node = 1
    /\ Len(last.calls) >= 2
    /\ last.calls[1].id = last.calls[2].id
    /\ devs # <<>>

\* C28: the worker leaves its loop only when the monitor fd is negative; with
\* any fd >= 0, fd 0 included, it goes on to select.
C28_LoopRunsForValidFd ==
    [][\A t \in DOMAIN threads :
          (threads[t] = "loop" /\ threads'[t] = "exited") => monitor_fd < 0]_vars

(***************************************************************************)
(* The calls and the worker step by step.                                  *)
(***************************************************************************)
\* C25: a registration appends to the callback list only while no other
\* thread holds the context mutex, that is, never while the worker is inside
\* its handling of an event and never while a deregistration is between its
\* lock and its unlock.
C25_AppendUnderMutex ==
    [][(last'.op = "register_append" /\ hotplug_cbs # <<>>) => mutex # "locked"]_vars

\* C26: two threads that are both inside a registration and have both taken
\* their handle hold different handles.
C26_ConcurrentHandlesDiffer ==
    \A c1, c2 \in Callers :
        (c1 # c2 /\ callers[c1].pc \in {"increment", "append"}
                 /\ callers[c2].pc \in {"increment", "append"}) =>
            callers[c1].handle # callers[c2].handle

\* C27: between the worker seeing the monitor readable and its receive call
\* the monitor is not released: a worker that is about to receive finds the
\* monitor live.
C27_MonitorLiveAtReceive ==
    \A t \in DOMAIN threads : threads[t] = "readable" => mon = "live"

(***************************************************************************)
(* The end of a walk.                                                      *)
(***************************************************************************)
\* what lies ahead of the cursor: the pairs the Collection items give, and
\* the page, the usage and whether a Usage is pending at the end
Ahead ==
    CollectionWalk(ItemsFrom(report_descriptor, pos + 1), 1, usage_page, FALSE, usage)

\* C29: a call that finds no Collection pair ahead of its cursor returns a
\* pair only when it started at pos 0, no pair was returned before and a
\* Usage is pending at the end, and then it is that Usage with the current
\* page; once the cursor is at the end every call reports finished and adds
\* no pair; the empty descriptor is finished at once with no pair.
C29_EndPairOnce ==
    [][last'.op = "get_next_hid_usage" =>
          /\ (WellFormed(report_descriptor) /\ Ahead.pairs = <<>>) =>
                /\ last'.result = 0 <=> (pos = 0 /\ pairs = <<>> /\ Ahead.pending)
                /\ last'.result = 0 => pairs' = <<<<Ahead.page, Ahead.us>>>>
                /\ last'.result # 0 => last'.result = 1 /\ pairs' = pairs
          /\ (pos >= Len(report_descriptor)) => last'.result = 1 /\ pairs' = pairs
          /\ report_descriptor = <<>> => pairs' = <<>>]_vars

\* the pair pending at the end was returned, and the next call was finished
C29_Witness ==
    /\ last.op = "get_next_hid_usage"
    /\ last.result = 1
    /\ last.args.pos = Len(report_descriptor)
    /\ Len(pairs) = 1
    /\ CollectionPairs(report_descriptor) = <<>>

(***************************************************************************)
(* Item data.                                                              *)
(***************************************************************************)
\* the unsigned little-endian value of the n bytes that follow index cur,
\* as the halves of a __u32
RECURSIVE LittleEndianHalf(_, _, _)
LittleEndianHalf(rpt, first, n) ==
    IF n = 0 THEN 0 ELSE rpt[first] + 256 * LittleEndianHalf(rpt, first + 1, n - 1)

LittleEndian32(rpt, cur, n) ==
    [hi |-> IF n > 2 THEN LittleEndianHalf(rpt, cur + 4, n - 2) ELSE 0,
     lo |-> LittleEndianHalf(rpt, cur + 2, IF n > 2 THEN 2 ELSE n)]

\* C30: for every buffer, cursor and width 0, 1, 2 or 4, get_hid_report_bytes
\* reads no byte at an index >= len, returns 0 when cur + num_bytes >= len,
\* and otherwise returns the unsigned little-endian value of the bytes at
\* cur + 1 .. cur + num_bytes.
C30_BytesWithinBuffer ==
    (last.op = "get_hid_report_bytes" /\ last.args.num_bytes \in {0, 1, 2, 4}) =>
        LET len == Len(report_descriptor)
            n == last.args.num_bytes
            cur == last.args.cur
        IN /\ \A k \in DOMAIN last.calls : last.calls[k] < len
           /\ last.fail = "none" =>
                 last.result = IF cur + n >= len THEN [hi |-> 0, lo |-> 0]
                               ELSE LittleEndian32(report_descriptor, cur, n)

\* four bytes were decoded and the last one is large
C30_Witness ==
    /\ last.op = "get_hid_report_bytes"
    /\ last.fail = "none"
    /\ last.args.num_bytes = 4
    /\ last.args.cur = 0
    /\ Len(last.calls) = 4
    /\ last.result.hi = 65535
    /\ last.result.lo = 32769

(***************************************************************************)
(* The dispatch callback by callback.                                      *)
(***************************************************************************)
\* C31: a deregistration that returned 0 does not free a callback while the
\* worker is inside an invocation of it, and the worker never starts an
\* invocation of a callback that has been deregistered (one that is no longer
\* in the list).
C31_DeregisteredIsDone ==
    [][/\ (last'.op = "deregister" /\ last'.result = 0 /\ walk.phase = "invoking") =>
              walk.callback.id \in Ids(hotplug_cbs')
       /\ (last'.op = "walk_call" /\ walk'.phase = "invoking") =>
              walk.callback.id \in Ids(hotplug_cbs)]_vars

(***************************************************************************)
(* The arming in two steps.                                                *)
(***************************************************************************)
\* C32: while callbacks are registered, devs holds no record twice: no two
\* records of devs have the same path and the same usage pair, so that the
\* removal of a node gives one LEFT per usage pair to each callback.
C32_DevsHoldsNodeOnce ==
    hotplug_cbs # <<>> =>
        \A i, j \in DOMAIN devs :
            (devs[i].path = devs[j].path /\ devs[i].usage = devs[j].usage) => i = j

(***************************************************************************)
(* The end of the driving.                                                 *)
(***************************************************************************)
\* C33: get_next_hid_usage terminates and the driving of it ends.  Every
\* item of the descriptor is sized with data_len + key_size >= 1; a call from
\* any cursor never moves the cursor back, moves it forward when it returns a
\* pair, and returns "finished" without moving it when the cursor is at or
\* past the end; in the driving from pos = 0 a call that returns "finished"
\* leaves the cursor at or past the end, so every later call is "finished"
\* too, and the pairs returned are no more than the bytes of the descriptor.
C33_DrivingEnds ==
    [][last'.op = "get_next_hid_usage" =>
          LET size == Len(report_descriptor)
          IN /\ \A p \in 0 .. size - 1 :
                    LET item == get_hid_item_size(report_descriptor, p, size)
                    IN /\ item.ret # 0
                       /\ item.data_len >= 0
                       /\ item.data_len + item.key_size >= 1
             /\ \A p \in 0 .. size + 1 :
                    LET r == get_next_hid_usage(report_descriptor, size, p,
                                                usage_page, usage)
                    IN /\ r.pos >= p
                       /\ r.ret = 0 => (p < size /\ r.pos > p)
                       /\ p >= size => (r.ret = 1 /\ r.pos = p)
             /\ pos' >= pos
             /\ last'.result = 0 => (pos < size /\ pos' > pos)
             /\ last'.result # 0 => (pos' >= size /\ pairs' = pairs)
             /\ Len(pairs') <= size]_vars

\* the driving returned two pairs and then "finished", with the cursor
\* at or past the end of the descriptor
C33_Witness ==
    /\ last.op = "get_next_hid_usage"
    /\ last.result = 1
    /\ Len(pairs) >= 2
    /\ pos >= Len(report_descriptor)
    /\ last.args.pos < Len(report_descriptor)

=============================================================================
